---- MODULE Spec2Model ----
(***************************************************************************)
(* RAG chatbot backend: the query pipeline (RAGService.process_query), the *)
(* chat endpoint that drives it and the conversation store it writes to.   *)
(*                                                                         *)
(* Strings are records [txt, len]: an opaque text and its length in        *)
(* characters.  Optional values are sequences: <<>> is None, <<x>> is x.    *)
(* Relevance scores are hundredths (0.81 is 81).                           *)
(***************************************************************************)
EXTENDS Integers, Sequences, FiniteSets, Bags, TLC

VARIABLES
    chat_sessions,         \* rows of table chat_sessions
    chat_messages,         \* rows of table chat_messages, in insertion order
    clock,                 \* datetime.utcnow()
    pc,                    \* per request: position in chat / process_query
    request,               \* per request: the ChatRequest the endpoint received
    session_id,            \* per request: process_query's session_id
    conversation_history,  \* per request: process_query's conversation_history
    query_embedding,       \* per request: process_query's query_embedding
    search_results,        \* per request: what client.search gave search()
    embed_content,         \* bag of the embed_content requests sent to the provider
    retrieved_chunks,      \* per request: process_query's retrieved_chunks
    contents,              \* per request: the contents handed to the generator
    response,              \* per request: process_query's response
    sources,               \* per request: process_query's sources
    calls,                 \* per request: the service calls process_query made
    saved,                 \* per request: the message IDs save_message returned
    outcome,               \* per request: what process_query returned or raised
    http,                  \* per request: what the chat endpoint answered
    api,                   \* the last direct ConversationService call and its end
    qdrant_collections,    \* names of the collections the Qdrant server holds
    qdrant_points,         \* points of the collection, as PointStructs
    ensure,                \* per process: its ensure_collection_exists calls
    upsert,                \* the last upsert_chunks call and its end
    settings,              \* the Settings object loaded at start
    llm_call,              \* the last _build_conversation_history call
    health,                \* the GET /health request: position, statuses, answer
    history_http,          \* the last GET /sessions/{session_id}/history and its answer
    embed_batch,           \* the last generate_embeddings_batch call and its end
    sanitize,              \* the last chat request's message: sanitize_query's end, what chat did with it
    chunker                \* the last chunk_text call: arguments, loop position, chunks so far

store == <<chat_sessions, chat_messages, clock>>
locals == <<session_id, conversation_history, query_embedding, search_results,
            retrieved_chunks, contents, response, sources>>
index == <<qdrant_collections, qdrant_points, ensure, upsert>>
units == <<settings, llm_call, health, history_http, embed_batch, sanitize, chunker>>
vars == <<chat_sessions, chat_messages, clock, pc, request, session_id,
          conversation_history, query_embedding, retrieved_chunks, contents,
          response, sources, calls, saved, outcome, http, api,
          qdrant_collections, qdrant_points, ensure, upsert, search_results, units,
          embed_content>>

-----------------------------------------------------------------------------
(* Bounds and program constants *)

MaxClock == 1                  \* instants the clock runs through: 0..MaxClock
Requests == {"r1", "r2"}       \* requests in flight at the chat endpoint

top_k_results == 5
similarity_threshold == 60
MaxExcerpt == 500
MinContent == 1
MaxContent == 10000
RefusalLen == 161

-----------------------------------------------------------------------------
(* Values *)

None == <<>>
Some(x) == <<x>>
Text(t, n) == [txt |-> t, len |-> n]

Min(a, b) == IF a < b THEN a ELSE b
Max(a, b) == IF a > b THEN a ELSE b

Range(s) == {s[i] : i \in 1..Len(s)}

\* Sanitized query texts that reach process_query; the empty one is what
\* sanitize_query returns for an input made only of stripped patterns.
Queries == {Text("What is ROS2?", 13), Text("long out-of-scope question", 1000),
            Text("", 0)}

SelectedTexts == {None, Some(Text("selected passage", 16))}

\* Session IDs: uuid4 values.  UnknownSid is a well-formed UUID that no
\* create_session call ever returned.
SessionIds == 1..Cardinality(Requests)
UnknownSid == Cardinality(Requests) + 1
Uuids == SessionIds \cup {UnknownSid}

-----------------------------------------------------------------------------
(* The vector index: VectorStoreService.search over the Qdrant collection *)

Point(title, file, text, idx, total, score) ==
    [title |-> title, file_path |-> file, chunk_text |-> text,
     chunk_index |-> idx, total_chunks |-> total, relevance_score |-> score]

\* Points of the collection, each with its cosine similarity to the query
\* "What is ROS2?".
PointPool ==
    { Point("ROS2", "docs/ros2.md", Text("ros2 intro", 800), 0, 3, 81),
      Point("ROS2", "docs/ros2.md", Text("ros2 nodes", 300), 1, 3, 65),
      Point("ROS2", "docs/ros2.md", Text("ros2 topics", 500), 2, 3, 70),
      Point("Simulation", "docs/sim.md", Text("gazebo", 501), 0, 2, 70),
      Point("Simulation", "docs/sim.md", Text("isaac", 200), 1, 2, 81),
      Point("Kinematics", "docs/kin.md", Text("dh params", 900), 0, 2, 65),
      Point("Kinematics", "docs/kin.md", Text("jacobian", 100), 1, 2, 40) }

\* The collection as the pipeline sees it: the scored points for each query.
ScoredPoints(query) ==
    IF query.txt = "What is ROS2?"
    THEN { p \in PointPool :
             \/ p.file_path = "docs/ros2.md" /\ p.relevance_score # 70
             \/ p.file_path = "docs/sim.md" /\ p.relevance_score = 70
             \/ p.relevance_score < similarity_threshold }
    ELSE { p \in PointPool : p.relevance_score < similarity_threshold }

Take(s, n) == SubSeq(s, 1, Min(n, Len(s)))

RECURSIVE DescendingOrders(_)
DescendingOrders(S) ==
    IF S = {} THEN {<<>>}
    ELSE UNION { { <<m>> \o rest : rest \in DescendingOrders(S \ {m}) } :
                 m \in { p \in S : \A q \in S :
                                     q.relevance_score <= p.relevance_score } }

\* QdrantClient.search(limit, score_threshold): the hits scoring at least
\* the threshold, best first, at most limit of them; ties in any order.
client_search(points, limit, score_threshold) ==
    { Take(s, limit) :
        s \in DescendingOrders({ p \in points :
                                   p.relevance_score >= score_threshold }) }

\* What client.search() gave one search() call: nothing yet, the hits it
\* returned, or an exception.
NotSearched == [state |-> "none", hits |-> <<>>]
SearchReturned(hits) == [state |-> "returned", hits |-> hits]
SearchFailed == [state |-> "raised", hits |-> <<>>]

\* Variant of the loop below that starts at the second hit.
search_chunks_skip_first(results) ==
    [ i \in 1..(Len(results) - 1) |->
        [title |-> results[i + 1].title, file_path |-> results[i + 1].file_path,
         chunk_text |-> results[i + 1].chunk_text,
         chunk_index |-> results[i + 1].chunk_index,
         total_chunks |-> results[i + 1].total_chunks,
         relevance_score |-> results[i + 1].relevance_score] ]

\* VectorStoreService.search: one chunk dict per hit, in the order returned.
search_chunks(results) ==
    [ i \in 1..Len(results) |->
        [title |-> results[i].title, file_path |-> results[i].file_path,
         chunk_text |-> results[i].chunk_text,
         chunk_index |-> results[i].chunk_index,
         total_chunks |-> results[i].total_chunks,
         relevance_score |-> results[i].relevance_score] ]

-----------------------------------------------------------------------------
(* Source assembly: process_query step 7 *)

\* seen_files is a dict keyed by file path; it is kept as the sequence of its
\* values in key-insertion order, which is the order .values() yields.
SeenIndex(seen_files, file_path) ==
    { i \in 1..Len(seen_files) : seen_files[i].file_path = file_path }

\* Variant of the iteration below that keeps the last chunk seen of a file.
SeenStepKeepLast(seen_files, chunk) ==
    LET at == SeenIndex(seen_files, chunk.file_path) IN
    IF at = {} THEN Append(seen_files, chunk)
    ELSE [seen_files EXCEPT ![CHOOSE j \in at : TRUE] = chunk]

\* One iteration of "for chunk in retrieved_chunks".
SeenStep(seen_files, chunk) ==
    LET at == SeenIndex(seen_files, chunk.file_path) IN
    IF at = {} THEN Append(seen_files, chunk)
    ELSE LET i == CHOOSE j \in at : TRUE IN
         IF chunk.relevance_score > seen_files[i].relevance_score
         THEN [seen_files EXCEPT ![i] = chunk]
         ELSE seen_files

RECURSIVE SeenFiles(_, _)
SeenFiles(chunks, n) ==
    IF n = 0 THEN <<>> ELSE SeenStep(SeenFiles(chunks, n - 1), chunks[n])

\* chunk["chunk_text"][:500]
Excerpt(text) == Text(text.txt, Min(text.len, MaxExcerpt))

Source(chunk) ==
    [title |-> chunk.title, file_path |-> chunk.file_path,
     relevance_score |-> chunk.relevance_score,
     excerpt |-> Excerpt(chunk.chunk_text)]

\* Variant of the order below: reverse=False.
SortsBeforeAscending(a, b) == a.relevance_score < b.relevance_score

\* The key sources.sort(key=..., reverse=True) orders by: an element goes
\* before another when its score is higher.
SortsBefore(a, b) == a.relevance_score > b.relevance_score

\* list.sort is stable: an element is placed after those already placed
\* that do not sort after it.
RECURSIVE SortInsert(_, _)
SortInsert(sorted, x) ==
    IF sorted = <<>> THEN <<x>>
    ELSE IF SortsBefore(x, Head(sorted)) THEN <<x>> \o sorted
    ELSE <<Head(sorted)>> \o SortInsert(Tail(sorted), x)

RECURSIVE SortSources(_, _)
SortSources(list, n) ==
    IF n = 0 THEN <<>> ELSE SortInsert(SortSources(list, n - 1), list[n])

FormatSources(chunks) ==
    LET seen_files == SeenFiles(chunks, Len(chunks))
        list == [i \in 1..Len(seen_files) |-> Source(seen_files[i])]
    IN  SortSources(list, Len(list))

-----------------------------------------------------------------------------
(* The conversation store: ChatSessionModel, ChatMessageModel and
   ConversationService *)

SessionRow(sid, created, active) ==
    [session_id |-> sid, created_at |-> created, last_activity_at |-> active]

\* Variant of the constraint below: the constraint not enforced.
chk_activity_not_enforced(row) == TRUE

\* CheckConstraint chk_activity_after_creation
chk_activity_after_creation(row) == row.last_activity_at >= row.created_at

MessageRow(mid, sid, role, content, selected_text, context_used, created) ==
    [message_id |-> mid, session_id |-> sid, role |-> role, content |-> content,
     selected_text |-> selected_text, context_used |-> context_used,
     created_at |-> created]

\* CheckConstraint chk_valid_role
chk_valid_role(row) == row.role \in {"user", "assistant"}

\* Variant of the constraint below, off by one at the upper end.
chk_content_length_off_by_one(row) ==
    row.content.len >= MinContent /\ row.content.len <= MaxContent + 1

\* CheckConstraint chk_content_length
chk_content_length(row) ==
    row.content.len >= MinContent /\ row.content.len <= MaxContent

\* Variant of the constraint below: the foreign key not enforced.
fk_session_not_enforced(sessions, row) == TRUE

\* ForeignKey("chat_sessions.session_id") on chat_messages.session_id
fk_session(sessions, row) ==
    \E s \in sessions : s.session_id = row.session_id

\* What the database does with the INSERT that session.commit() sends.
MessageInsertAccepted(sessions, row) ==
    /\ fk_session(sessions, row)
    /\ chk_valid_role(row)
    /\ chk_content_length(row)

\* The exception session.commit() raises for the INSERT of row: the database
\* is unreachable, or it reports the constraint the row violates (the row's
\* CHECK constraints are tested before its foreign key).
InsertError(db_ok, sessions, row) ==
    IF ~db_ok THEN "OperationalError"
    ELSE IF ~chk_valid_role(row) THEN "IntegrityError: chk_valid_role"
    ELSE IF ~chk_content_length(row) THEN "IntegrityError: chk_content_length"
    ELSE IF ~fk_session(sessions, row)
         THEN "IntegrityError: chat_messages_session_id_fkey"
    ELSE ""

\* uuid4() for a new session / a new message: a value not used before.
NewSessionId(sessions) ==
    CHOOSE k \in SessionIds :
        /\ \A s \in sessions : s.session_id # k
        /\ \A j \in SessionIds : j < k => \E s \in sessions : s.session_id = j

NewMessageId(messages) == Len(messages) + 1

\* ConversationService.save_message: the table after the call.  db_ok says
\* whether the database is reachable for this call.
save_message_commits(db_ok, sessions, row) ==
    db_ok /\ MessageInsertAccepted(sessions, row)

\* Variant of the operator below that keeps one row per session and role:
\* the new row replaces the session's last row when that has the same role.
save_message_replacing(db_ok, sessions, messages, row) ==
    IF ~save_message_commits(db_ok, sessions, row) THEN messages
    ELSE IF /\ messages # <<>>
            /\ messages[Len(messages)].session_id = row.session_id
            /\ messages[Len(messages)].role = row.role
         THEN [messages EXCEPT ![Len(messages)] = row]
         ELSE Append(messages, row)

save_message(db_ok, sessions, messages, row) ==
    IF save_message_commits(db_ok, sessions, row)
    THEN Append(messages, row)
    ELSE messages

\* Variant of the dict below that leaves the selected text out.
HistoryEntryWithoutSelectedText(msg) ==
    [message_id |-> msg.message_id, role |-> msg.role, content |-> msg.content,
     selected_text |-> None, context_used |-> msg.context_used,
     created_at |-> msg.created_at]

\* The dict get_conversation_history builds for one row.
HistoryEntry(msg) ==
    [message_id |-> msg.message_id, role |-> msg.role, content |-> msg.content,
     selected_text |-> msg.selected_text, context_used |-> msg.context_used,
     created_at |-> msg.created_at]

RECURSIVE AscendingOrders(_, _)
AscendingOrders(messages, I) ==
    IF I = {} THEN {<<>>}
    ELSE UNION { { <<messages[m]>> \o rest :
                     rest \in AscendingOrders(messages, I \ {m}) } :
                 m \in { i \in I : \A j \in I :
                          messages[i].created_at <= messages[j].created_at } }

\* Variant of the query below without its WHERE clause.
SelectHistoryAllSessions(messages, sid) ==
    AscendingOrders(messages, 1..Len(messages))

\* SELECT ... WHERE session_id = :sid ORDER BY created_at ASC: the rows of
\* the session, rows with equal created_at in any order.
SelectHistory(messages, sid) ==
    AscendingOrders(messages,
                    { i \in 1..Len(messages) : messages[i].session_id = sid })

\* ConversationService.get_conversation_history: the lists it can return.
get_conversation_history(messages, sid) ==
    { [i \in 1..Len(rows) |-> HistoryEntry(rows[i])] :
        rows \in SelectHistory(messages, sid) }

\* Variant of the operator below that treats a session without a row in
\* chat_sessions as an error.
HistoryErrorMissingSession(db_ok, sessions, sid) ==
    IF ~db_ok THEN "OperationalError"
    ELSE IF \A s \in sessions : s.session_id # sid THEN "SessionNotFound"
    ELSE ""

\* The exception get_conversation_history re-raises: only the one
\* session.execute() raises when the database is unreachable.
HistoryError(db_ok, sessions, sid) ==
    IF ~db_ok THEN "OperationalError" ELSE ""

-----------------------------------------------------------------------------
(* The answer generator: LLMService *)

max_conversation_context == 6

\* conversation_messages[-n:] as Python slices it: -0 is 0, the whole list.
LastMessages(messages, n) ==
    IF n = 0 \/ n >= Len(messages) THEN messages
    ELSE SubSeq(messages, Len(messages) - n + 1, Len(messages))

\* Variant of the test below: "is not None".
IsNotNone(opt) == opt # None

\* Python truthiness of an Optional[str]: None and "" are false.
Truthy(opt) == opt # None /\ opt[1].len > 0

\* LLMService._build_conversation_history: the prior turns, then the
\* current turn (with the selected text quoted in front when there is one).
build_conversation_history(conversation_messages, current_query, selected_text) ==
    LET prior == LastMessages(conversation_messages,
                              settings.max_conversation_context)
    IN  [i \in 1..Len(prior) |->
            [role |-> prior[i].role, parts |-> <<prior[i].content>>]]
        \o << [role |-> "user",
               parts |-> IF Truthy(selected_text)
                         THEN <<selected_text[1], current_query>>
                         ELSE <<current_query>>] >>

\* What response.text can be for a successful generate_content call.
AnswerTexts == {Text("ROS2 is a robotics middleware.", 30), Text("", 0)}

\* The fixed refusal of the empty-retrieval branch.
Refusal == Text("I don't have information about that in the documentation.",
                RefusalLen)

NoText == Text("<unset>", 0)

-----------------------------------------------------------------------------
(* The chat endpoint's session-ID handling: validate_session_id and UUID() *)

UuidText(k) ==
    CASE k = 1 -> "00000000-0000-4000-8000-000000000001"
      [] k = 2 -> "00000000-0000-4000-8000-000000000002"
      [] k = 3 -> "00000000-0000-4000-8000-000000000003"
      [] OTHER -> "00000000-0000-4000-8000-00000000000f"

\* str(uuid)
str(k) == Text(UuidText(k), 36)

\* validate_session_id: the string has the UUID shape.
validate_session_id(s) == \E k \in Uuids : s = str(k)

\* UUID(s) for a string of the UUID shape.
UUID(s) == CHOOSE k \in Uuids : s = str(k)

\* A session's ID leaves the server in the chat response (or its log) of the
\* request that created it: no client holds it while that request runs.
Disclosed(sid) ==
    \A r \in Requests :
        (session_id[r] = Some(sid) /\ "create_session" \in Range(calls[r]))
            => pc[r] = "done"

\* What a client can send as session_id: nothing, an empty string, a
\* malformed string, the ID of a stored session it can know, or a
\* well-formed UUID of no stored session.
SessionIdInputs ==
    {None, Some(Text("", 0)), Some(Text("not-a-uuid", 10))}
    \cup { Some(str(s.session_id)) : s \in { x \in chat_sessions :
                                                Disclosed(x.session_id) } }
    \cup { Some(str(UnknownSid)) }

ChatInputs ==
    [sanitized_query : Queries, session_id : SessionIdInputs,
     sanitized_selected_text : SelectedTexts]

NoRequest ==
    [sanitized_query |-> NoText, session_id |-> None,
     sanitized_selected_text |-> None]

\* HTTP answers of the chat endpoint.
Http(status, detail, sid, message, srcs) ==
    [status |-> status, detail |-> detail, session_id |-> sid,
     message |-> message, sources |-> srcs]

NoHttp == Http(0, "", None, None, None)
Http400 == Http(400, "Invalid session ID format", None, None, None)
Http500 ==
    Http(500, "An error occurred while processing your request. Please try again.",
         None, None, None)

\* Outcomes of process_query.
Pending == [kind |-> "pending", value |-> None, error |-> ""]
Raised(error) == [kind |-> "raised", value |-> None, error |-> error]
Returned(resp, srcs, sid) ==
    [kind |-> "returned",
     value |-> Some([response |-> resp, sources |-> srcs, session_id |-> sid]),
     error |-> ""]

\* A direct call of the store: the arguments it was given, whether it
\* raised, and the list it returned (get_conversation_history).
StoreCall(fn, sid, role, content, raised) ==
    [fn |-> fn, session_id |-> sid, role |-> role, content |-> content,
     selected_text |-> None, context_used |-> None,
     raised |-> raised, error |-> "", result |-> <<>>]
NoCall == StoreCall("", 0, "", NoText, FALSE)

-----------------------------------------------------------------------------
(* The vector index's writes: VectorStoreService.ensure_collection_exists
   and VectorStoreService.upsert_chunks *)

collection_name == "ai_native_book"

\* Processes that start up (lifespan) or index (index_docs) on one Qdrant.
Processes == {"p1", "p2"}

MaxEnsureCalls == 2        \* ensure_collection_exists calls per process
MaxBatch == 2              \* length of a chunk list or an embedding list
MaxPoints == 3             \* chunks handed to upsert_chunks in all

\* One process's ensure_collection_exists: where it stands, the collection
\* names get_collections() gave it, how its last call ended, calls made.
EnsureState(at, names, ended, error, n) ==
    [pc |-> at, collection_names |-> names, outcome |-> ended, error |-> error,
     calls |-> n]
NotStarted == EnsureState("idle", {}, "none", "", 0)

\* client.create_collection: the server refuses a name it already holds.
CreateCollectionError(qdrant_ok, collections) ==
    IF ~qdrant_ok THEN "ResponseHandlingException"
    ELSE IF collection_name \in collections
         THEN "UnexpectedResponse: 409 Conflict"
    ELSE ""

\* Chunk payloads as index_docs builds them, and embedding vectors.
ChunkPayloads ==
    { [title |-> "ROS2", file_path |-> "docs/ros2.md",
       chunk_text |-> Text("ros2 intro", 800), chunk_index |-> 0,
       total_chunks |-> 2],
      [title |-> "ROS2", file_path |-> "docs/ros2.md",
       chunk_text |-> Text("ros2 nodes", 300), chunk_index |-> 1,
       total_chunks |-> 2] }
Vectors == {"v0", "v1"}

\* Non-empty lists: what the server answers to an empty points list is not
\* decided by this code.
Batches(S) == UNION { [1..n -> S] : n \in 1..MaxBatch }

PointStruct(id, vector, payload) ==
    [id |-> id, vector |-> vector, payload |-> payload]

\* zip(chunks, embeddings): pairs up to the end of the shorter list.
zip(chunks, embeddings) ==
    [i \in 1..Min(Len(chunks), Len(embeddings)) |-> <<chunks[i], embeddings[i]>>]

\* str(uuid4()) for the i-th point of a batch: an ID no point has.
NewPointId(stored, i) == Cardinality(stored) + i

\* The points list upsert_chunks builds.
BuildPoints(stored, chunks, embeddings) ==
    [i \in 1..Len(zip(chunks, embeddings)) |->
        PointStruct(NewPointId(stored, i), zip(chunks, embeddings)[i][2],
                    zip(chunks, embeddings)[i][1])]

\* client.upsert: the error it ends in, if any.
UpsertError(qdrant_ok, collections) ==
    IF ~qdrant_ok THEN "ResponseHandlingException"
    ELSE IF collection_name \notin collections
         THEN "UnexpectedResponse: 404 Not Found"
    ELSE ""

\* An upsert_chunks call: its arguments, the error it raised, the IDs of
\* the points it wrote.
UpsertCall(chunks, embeddings, error, ids) ==
    [called |-> TRUE, chunks |-> chunks, embeddings |-> embeddings,
     raised |-> error # "", error |-> error, ids |-> ids]
NoUpsert == [UpsertCall(<<>>, <<>>, "", <<>>) EXCEPT !.called = FALSE]

\* Settings(): the fields read here, with their defaults.
DefaultSettings == [max_conversation_context |-> max_conversation_context]

\* A _build_conversation_history call: its arguments and what it returned.
LlmCall(conversation_messages, current_query, selected_text, messages) ==
    [called |-> TRUE, conversation_messages |-> conversation_messages,
     current_query |-> current_query, selected_text |-> selected_text,
     messages |-> messages]
NoLlmCall == [LlmCall(<<>>, NoText, None, <<>>) EXCEPT !.called = FALSE]

\* The GET /health request: where it stands, the dict check_health fills,
\* whether check_health raised, and the endpoint's answer.
Dependencies == <<"qdrant", "postgres", "openai">>
NoServices == [name \in {} |-> ""]
HealthState(at, services, raised, status_code, status) ==
    [pc |-> at, services |-> services, raised |-> raised,
     status_code |-> status_code, status |-> status, probes |-> <<>>]
NoHealth == HealthState("idle", NoServices, FALSE, 0, "")

\* What the probe request of a dependency can end in.  The generator's
\* probe is a generate_content call whose response.text may be None.
ProbeOutcomes(name) ==
    IF name = "openai" THEN {"text", "no text", "raised"} ELSE {"ok", "raised"}

\* check_health of VectorStoreService, ConversationService and LLMService:
\* the request inside try, False from the except clause.
service_check_health(name, probe) ==
    IF probe = "raised" THEN FALSE
    ELSE IF name = "openai" THEN probe # "no text"
    ELSE TRUE

\* Variant of the conditional below: "up" whatever the probe said.
HealthStatusAlwaysUp(healthy) == "up"

\* "up" if healthy else "down"
HealthStatus(healthy) == IF healthy THEN "up" ELSE "down"

\* all(status == "up" for status in services.values())
all_healthy(services) == \A name \in DOMAIN services : services[name] = "up"

\* The answer of GET /sessions/{session_id}/history: status 200 with the messages, or an HTTPException.
HistoryHttp(sid, status, detail, messages) ==
    [called |-> TRUE, session_id |-> sid, status |-> status, detail |-> detail,
     messages |-> messages]
NoHistoryHttp == [HistoryHttp(NoText, 0, "", <<>>) EXCEPT !.called = FALSE]

\* A generate_embeddings_batch call: its texts, whether it raised, and the
\* vectors it returned (each stands for the encoding of its text in the mode
\* that was asked for).
EmbedBatch(texts, raised, embeddings) ==
    [called |-> TRUE, texts |-> texts, raised |-> raised, embeddings |-> embeddings]
NoEmbedBatch == [EmbedBatch(<<>>, FALSE, <<>>) EXCEPT !.called = FALSE]

\* The message of a chat request: what sanitize_query raised or returned,
\* the status chat() answered at once (0: none), and the query it handed to
\* process_query.
Sanitized(message, error, result, status, query) ==
    [called |-> TRUE, message |-> message, error |-> error, result |-> result,
     status |-> status, process_query |-> query]
NoSanitize == [Sanitized(<<>>, "", <<>>, 0, None) EXCEPT !.called = FALSE]

\* A chunk_text call: where it stands, its words, its arguments, the loop's
\* start index and the chunks appended so far (each a list of words).
Chunker(at, words, chunk_size, overlap, start, chunks) ==
    [pc |-> at, words |-> words, chunk_size |-> chunk_size, overlap |-> overlap,
     start |-> start, chunks |-> chunks]
NoChunker == Chunker("idle", <<>>, 0, 0, 0, <<>>)

-----------------------------------------------------------------------------
(* Initial state: empty tables, no request received yet *)

InitUnits ==
    /\ settings = DefaultSettings
    /\ llm_call = NoLlmCall
    /\ health = NoHealth
    /\ history_http = NoHistoryHttp
    /\ embed_batch = NoEmbedBatch
    /\ sanitize = NoSanitize
    /\ chunker = NoChunker

Init ==
    /\ chat_sessions = {}
    /\ chat_messages = <<>>
    /\ clock = 0
    /\ pc = [r \in Requests |-> "idle"]
    /\ request = [r \in Requests |-> NoRequest]
    /\ session_id = [r \in Requests |-> None]
    /\ conversation_history = [r \in Requests |-> <<>>]
    /\ query_embedding = [r \in Requests |-> None]
    /\ search_results = [r \in Requests |-> NotSearched]
    /\ retrieved_chunks = [r \in Requests |-> <<>>]
    /\ contents = [r \in Requests |-> <<>>]
    /\ response = [r \in Requests |-> NoText]
    /\ sources = [r \in Requests |-> <<>>]
    /\ calls = [r \in Requests |-> <<>>]
    /\ saved = [r \in Requests |-> <<>>]
    /\ outcome = [r \in Requests |-> Pending]
    /\ http = [r \in Requests |-> NoHttp]
    /\ api = NoCall
    /\ qdrant_collections = {}
    /\ qdrant_points = {}
    /\ ensure = [p \in Processes |-> NotStarted]
    /\ upsert = NoUpsert
    /\ InitUnits
    /\ embed_content = EmptyBag

\* Time passes.
Tick ==
    /\ clock < MaxClock
    /\ clock' = clock + 1
    /\ UNCHANGED <<chat_sessions, chat_messages, pc, request, api, index, units, embed_content, locals, calls,
                   saved, outcome, http>>

Called(r, fn) == calls' = [calls EXCEPT ![r] = Append(@, fn)]

\* Variant of the handler below that answers with what was computed so far.
RaisePartialAnswer(r, error) ==
    /\ pc' = [pc EXCEPT ![r] = "done"]
    /\ outcome' = [outcome EXCEPT ![r] = Raised(error)]
    /\ http' = [http EXCEPT ![r] =
                  Http(200, "", None, Some(response[r]), Some(sources[r]))]

\* Variant of the handler below that leaves the request at the failed step,
\* to run it again.
RaiseRetry(r, error) ==
    /\ UNCHANGED <<pc, outcome, http>>

\* process_query's "except Exception: raise" and the chat endpoint's
\* "except Exception" that answers it with status 500.
Raise(r, error) ==
    /\ pc' = [pc EXCEPT ![r] = "done"]
    /\ outcome' = [outcome EXCEPT ![r] = Raised(error)]
    /\ http' = [http EXCEPT ![r] = Http500]

\* chat(), up to the call of process_query: the session ID is validated and
\* parsed when the request carries a non-empty one.
chat(r, req) ==
    /\ pc[r] = "idle"
    /\ request' = [request EXCEPT ![r] = req]
    /\ IF Truthy(req.session_id)
       THEN IF ~validate_session_id(req.session_id[1])
            THEN /\ pc' = [pc EXCEPT ![r] = "done"]
                 /\ http' = [http EXCEPT ![r] = Http400]
                 /\ UNCHANGED session_id
            ELSE /\ pc' = [pc EXCEPT ![r] = "resolve"]
                 /\ session_id' =
                        [session_id EXCEPT ![r] = Some(UUID(req.session_id[1]))]
                 /\ UNCHANGED http
       ELSE /\ pc' = [pc EXCEPT ![r] = "resolve"]
            /\ UNCHANGED <<session_id, http>>
    /\ UNCHANGED <<store, api, index, units, embed_content, search_results, conversation_history, query_embedding,
                   retrieved_chunks, contents, response, sources, calls, saved,
                   outcome>>

\* The readings datetime.utcnow() can give from now on, before the next.
Now == {clock, Min(clock + 1, MaxClock)}

\* Step 1: create a session when none was supplied
\* (ConversationService.create_session), else use the supplied ID as it is.
\* The two column defaults of the new row are two separate readings of the
\* clock, taken in the order the ORM evaluates them.
resolve_session(r, db_ok, created_at, active_at) ==
    /\ pc[r] = "resolve"
    /\ IF session_id[r] = None
       THEN LET row == SessionRow(NewSessionId(chat_sessions), created_at, active_at)
            IN  /\ Called(r, "create_session")
                /\ clock' = Max(created_at, active_at)
                /\ IF db_ok /\ chk_activity_after_creation(row)
                   THEN /\ chat_sessions' = chat_sessions \cup {row}
                        /\ session_id' = [session_id EXCEPT ![r] = Some(row.session_id)]
                        /\ pc' = [pc EXCEPT ![r] = "history"]
                        /\ UNCHANGED <<outcome, http>>
                   ELSE /\ Raise(r, IF db_ok
                                     THEN "IntegrityError: chk_activity_after_creation"
                                     ELSE "OperationalError")
                        /\ UNCHANGED <<chat_sessions, session_id>>
       ELSE /\ pc' = [pc EXCEPT ![r] = "history"]
            /\ UNCHANGED <<chat_sessions, clock, session_id, calls, outcome, http>>
    /\ UNCHANGED <<chat_messages, request, api, index, units, embed_content, search_results, conversation_history,
                   query_embedding, retrieved_chunks, contents, response,
                   sources, saved>>

\* Step 2: ConversationService.get_conversation_history.
load_history(r, db_ok) ==
    /\ pc[r] = "history"
    /\ Called(r, "get_conversation_history")
    /\ IF HistoryError(db_ok, chat_sessions, session_id[r][1]) = ""
       THEN /\ \E h \in get_conversation_history(chat_messages, session_id[r][1]) :
                 conversation_history' = [conversation_history EXCEPT ![r] = h]
            /\ pc' = [pc EXCEPT ![r] = "embed"]
            /\ UNCHANGED <<outcome, http>>
       ELSE /\ Raise(r, HistoryError(db_ok, chat_sessions, session_id[r][1]))
            /\ UNCHANGED conversation_history
    /\ UNCHANGED <<store, request, api, index, units, embed_content, search_results, session_id, query_embedding,
                   retrieved_chunks, contents, response, sources, saved>>

\* An embed_content request: its texts (one, for a single string), whether
\* they were passed as a single string or as a list, and the task type of
\* its config.
EmbedContent(shape, texts, task_type) ==
    [shape |-> shape, contents |-> texts, task_type |-> task_type]

\* generate_embedding's task_type.
SingleTaskType == "RETRIEVAL_QUERY"

\* Variant of the constant below: the batch call in query mode.
BatchTaskTypeQuery == "RETRIEVAL_QUERY"

\* generate_embeddings_batch's task_type.
BatchTaskType == "RETRIEVAL_DOCUMENT"

\* Step 3: EmbeddingService.generate_embedding.
embed_query(r, api_ok) ==
    /\ pc[r] = "embed"
    /\ Called(r, "generate_embedding")
    /\ embed_content' = embed_content (+) SetToBag({
            EmbedContent("single", <<request[r].sanitized_query>>, SingleTaskType)})
    /\ IF api_ok
       THEN /\ query_embedding' =
                 [query_embedding EXCEPT ![r] =
                    Some([task_type |-> SingleTaskType,
                          text |-> request[r].sanitized_query])]
            /\ pc' = [pc EXCEPT ![r] = "search"]
            /\ UNCHANGED <<outcome, http>>
       ELSE /\ Raise(r, "EmbeddingError")
            /\ UNCHANGED query_embedding
    /\ UNCHANGED <<store, request, api, index, units, search_results, session_id, conversation_history,
                   retrieved_chunks, contents, response, sources, saved>>

\* Variant of the test below that sends every retrieval to the generator.
NoRelevantResultsNever(chunks) == FALSE

\* Step 5's test "if not retrieved_chunks".
NoRelevantResults(chunks) == chunks = <<>>

\* Steps 4 and 5: VectorStoreService.search over the collection's scored
\* points, then the empty-retrieval branch.
search_index(r, points, qdrant_ok) ==
    /\ pc[r] = "search"
    /\ Called(r, "search")
    /\ IF qdrant_ok
       THEN \E results \in client_search(points, top_k_results, similarity_threshold) :
              LET chunks == search_chunks(results) IN
              /\ search_results' = [search_results EXCEPT ![r] = SearchReturned(results)]
              /\ retrieved_chunks' = [retrieved_chunks EXCEPT ![r] = chunks]
              /\ IF NoRelevantResults(chunks)
                 THEN /\ response' = [response EXCEPT ![r] = Refusal]
                      /\ sources' = [sources EXCEPT ![r] = <<>>]
                      /\ pc' = [pc EXCEPT ![r] = "save_user"]
                 ELSE /\ pc' = [pc EXCEPT ![r] = "generate"]
                      /\ UNCHANGED <<response, sources>>
              /\ UNCHANGED <<outcome, http>>
       ELSE /\ Raise(r, "VectorStoreError")
            /\ search_results' = [search_results EXCEPT ![r] = SearchFailed]
            /\ UNCHANGED <<retrieved_chunks, response, sources>>
    /\ UNCHANGED <<store, request, api, index, units, embed_content, session_id, conversation_history,
                   query_embedding, contents, saved>>

\* Steps 6 and 7: LLMService.generate_response, then the sources.  answer
\* is response.text, or None when the API call fails.
generate(r, answer) ==
    /\ pc[r] = "generate"
    /\ Called(r, "generate_response")
    /\ contents' = [contents EXCEPT ![r] =
                      build_conversation_history(conversation_history[r],
                                                 request[r].sanitized_query,
                                                 request[r].sanitized_selected_text)]
    /\ IF answer # None
       THEN /\ response' = [response EXCEPT ![r] = answer[1]]
            /\ sources' = [sources EXCEPT ![r] = FormatSources(retrieved_chunks[r])]
            /\ pc' = [pc EXCEPT ![r] = "save_user"]
            /\ UNCHANGED <<outcome, http>>
       ELSE /\ Raise(r, "GenerationError")
            /\ UNCHANGED <<response, sources>>
    /\ UNCHANGED <<store, request, api, index, units, embed_content, search_results, session_id, conversation_history,
                   query_embedding, retrieved_chunks, saved>>

\* Variant of the row below with the roles mixed up.
UserMessageAsAssistant(mid, sid, query, selected_text, now) ==
    MessageRow(mid, sid, "assistant", query, selected_text, None, now)

\* Variant of the row below that leaves the selected text out.
UserMessageWithoutSelectedText(mid, sid, query, selected_text, now) ==
    MessageRow(mid, sid, "user", query, None, None, now)

\* The row of step 8's save_message call.
UserMessage(mid, sid, query, selected_text, now) ==
    MessageRow(mid, sid, "user", query, selected_text, None, now)

\* Variant of the payload below, built from the deduplicated sources.
ContextMetadataDeduplicated(chunks) ==
    [chunks |-> [i \in 1..Len(FormatSources(chunks)) |->
                    [title |-> FormatSources(chunks)[i].title,
                     file_path |-> FormatSources(chunks)[i].file_path,
                     relevance_score |-> FormatSources(chunks)[i].relevance_score]],
     retrieval_count |-> Len(FormatSources(chunks))]

\* context_metadata of step 9.
ContextMetadata(chunks) ==
    [chunks |-> [i \in 1..Len(chunks) |->
                    [title |-> chunks[i].title, file_path |-> chunks[i].file_path,
                     relevance_score |-> chunks[i].relevance_score]],
     retrieval_count |-> Len(chunks)]

\* The row of step 9's save_message call.
AssistantMessage(mid, sid, answer, chunks, now) ==
    MessageRow(mid, sid, "assistant", answer, None,
               Some(ContextMetadata(chunks)), now)

\* Variant of the operator below: a compensating delete of the last row.
AfterRaiseUndo(messages) ==
    IF messages = <<>> THEN messages ELSE SubSeq(messages, 1, Len(messages) - 1)

\* The table after step 8 or step 9 raised: process_query re-raises and
\* undoes nothing.
AfterRaise(messages) == messages

\* Step 8: save the user message.
save_user(r, db_ok) ==
    LET row == UserMessage(NewMessageId(chat_messages), session_id[r][1],
                           request[r].sanitized_query,
                           request[r].sanitized_selected_text, clock)
    IN
    /\ pc[r] = "save_user"
    /\ Called(r, "save_message:user")
    /\ IF save_message_commits(db_ok, chat_sessions, row)
       THEN /\ chat_messages' = save_message(db_ok, chat_sessions, chat_messages, row)
            /\ saved' = [saved EXCEPT ![r] = Append(@, row.message_id)]
            /\ pc' = [pc EXCEPT ![r] = "save_assistant"]
            /\ UNCHANGED <<outcome, http>>
       ELSE /\ chat_messages' =
                 AfterRaise(save_message(db_ok, chat_sessions, chat_messages, row))
            /\ Raise(r, InsertError(db_ok, chat_sessions, row))
            /\ UNCHANGED saved
    /\ UNCHANGED <<chat_sessions, clock, request, api, index, units, embed_content, locals>>

\* Step 9: save the assistant message and return; chat() then answers 200.
save_assistant(r, db_ok) ==
    LET row == AssistantMessage(NewMessageId(chat_messages), session_id[r][1],
                                response[r], retrieved_chunks[r], clock)
    IN
    /\ pc[r] = "save_assistant"
    /\ Called(r, "save_message:assistant")
    /\ IF save_message_commits(db_ok, chat_sessions, row)
       THEN /\ chat_messages' = save_message(db_ok, chat_sessions, chat_messages, row)
            /\ saved' = [saved EXCEPT ![r] = Append(@, row.message_id)]
            /\ pc' = [pc EXCEPT ![r] = "done"]
            /\ outcome' = [outcome EXCEPT ![r] =
                             Returned(response[r], sources[r], session_id[r][1])]
            /\ http' = [http EXCEPT ![r] =
                          Http(200, "", Some(str(session_id[r][1])),
                               Some(response[r]), Some(sources[r]))]
       ELSE /\ chat_messages' =
                 AfterRaise(save_message(db_ok, chat_sessions, chat_messages, row))
            /\ Raise(r, InsertError(db_ok, chat_sessions, row))
            /\ UNCHANGED saved
    /\ UNCHANGED <<chat_sessions, clock, request, api, index, units, embed_content, locals>>

\* The steps of process_query after the request is received, search apart.
Pipeline(r) ==
    \/ \E db_ok \in BOOLEAN, created_at \in Now, active_at \in Now :
          resolve_session(r, db_ok, created_at, active_at)
    \/ \E db_ok \in BOOLEAN : load_history(r, db_ok)
    \/ \E api_ok \in BOOLEAN : embed_query(r, api_ok)
    \/ \E answer \in {None} \cup {Some(a) : a \in AnswerTexts} : generate(r, answer)
    \/ \E db_ok \in BOOLEAN : save_user(r, db_ok)
    \/ \E db_ok \in BOOLEAN : save_assistant(r, db_ok)

Next ==
    \/ Tick
    \/ \E r \in Requests :
          \/ \E req \in ChatInputs : chat(r, req)
          \/ Pipeline(r)
          \/ \E qdrant_ok \in BOOLEAN :
                search_index(r, ScoredPoints(query_embedding[r][1].text), qdrant_ok)

Spec == Init /\ [][Next]_vars

-----------------------------------------------------------------------------
(* One request asking "What is ROS2?" against every collection content: the
   scored points are any subset of the pool. *)

OneRequest == CHOOSE r \in Requests : TRUE

NextSources ==
    \/ Tick
    \/ \E req \in { c \in ChatInputs : c.sanitized_query.txt = "What is ROS2?" } :
          chat(OneRequest, req)
    \/ Pipeline(OneRequest)
    \/ \E points \in SUBSET PointPool, qdrant_ok \in BOOLEAN :
          search_index(OneRequest, points, qdrant_ok)

SpecSources == Init /\ [][NextSources]_vars

-----------------------------------------------------------------------------
(* The conversation store driven directly: any caller, any arguments *)

MaxMessages == 2

\* Arguments of a direct save_message call (role, content, selected_text,
\* context_used): rows as process_query writes them, a user row of the
\* longest content, and calls with a role or a content length the table
\* does not allow.
SaveArguments ==
    { <<"user", Text("a", 1), Some(Text("selected passage", 16)), None>>,
      <<"user", Text("longest", 10000), None, None>>,
      <<"assistant", Text("longest", 10000), None, Some(ContextMetadata(<<>>))>>,
      <<"system", Text("a", 1), None, None>>,
      <<"user", Text("", 0), None, None>>,
      <<"user", Text("too long", 10001), None, None>>,
      <<"assistant", Text("too long", 10001), None, Some(ContextMetadata(<<>>))>> }

pipeline == <<pc, request, session_id, conversation_history, query_embedding,
              search_results, retrieved_chunks, contents, response, sources, calls, saved,
              outcome, http>>

\* ConversationService.create_session called on its own.
create_session(db_ok, created_at, active_at) ==
    LET row == SessionRow(NewSessionId(chat_sessions), created_at, active_at) IN
    /\ Cardinality(chat_sessions) < Cardinality(SessionIds)
    /\ clock' = Max(created_at, active_at)
    /\ IF db_ok /\ chk_activity_after_creation(row)
       THEN /\ chat_sessions' = chat_sessions \cup {row}
            /\ api' = StoreCall("create_session", row.session_id, "", NoText, FALSE)
       ELSE /\ api' = [StoreCall("create_session", 0, "", NoText, TRUE)
                         EXCEPT !.error =
                            IF db_ok
                            THEN "IntegrityError: chk_activity_after_creation"
                            ELSE "OperationalError"]
            /\ UNCHANGED chat_sessions
    /\ UNCHANGED <<chat_messages, pipeline, index, units, embed_content>>

\* ConversationService.save_message called on its own.
save_message_call(db_ok, sid, role, content, selected_text, context_used) ==
    LET row == MessageRow(NewMessageId(chat_messages), sid, role, content,
                          selected_text, context_used, clock)
    IN
    /\ Len(chat_messages) < MaxMessages
    /\ chat_messages' = save_message(db_ok, chat_sessions, chat_messages, row)
    /\ api' = [StoreCall("save_message", sid, role, content,
                         ~save_message_commits(db_ok, chat_sessions, row))
                  EXCEPT !.selected_text = selected_text,
                         !.context_used = context_used,
                         !.error = InsertError(db_ok, chat_sessions, row)]
    /\ UNCHANGED <<chat_sessions, clock, pipeline, index, units, embed_content>>

\* ConversationService.get_conversation_history called on its own.
get_conversation_history_call(db_ok, sid) ==
    /\ IF HistoryError(db_ok, chat_sessions, sid) = ""
       THEN \E h \in get_conversation_history(chat_messages, sid) :
               api' = [StoreCall("get_conversation_history", sid, "", NoText, FALSE)
                         EXCEPT !.result = h]
       ELSE api' = [StoreCall("get_conversation_history", sid, "", NoText, TRUE)
                      EXCEPT !.error = HistoryError(db_ok, chat_sessions, sid)]
    /\ UNCHANGED <<chat_sessions, chat_messages, clock, pipeline, index, units, embed_content>>

NextStore ==
    \/ Tick
    \/ \E db_ok \in BOOLEAN, created_at \in Now, active_at \in Now :
          create_session(db_ok, created_at, active_at)
    \/ \E db_ok \in BOOLEAN, sid \in Uuids, a \in SaveArguments :
          save_message_call(db_ok, sid, a[1], a[2], a[3], a[4])
    \/ \E db_ok \in BOOLEAN, sid \in Uuids :
          get_conversation_history_call(db_ok, sid)

SpecStore == Init /\ [][NextStore]_vars

-----------------------------------------------------------------------------
(* Processes starting up against one Qdrant server, and the indexing of
   chunk batches *)

\* ensure_collection_exists, first half: get_collections() and the names.
ensure_get_collections(p, qdrant_ok) ==
    /\ ensure[p].pc = "idle"
    /\ ensure[p].calls < MaxEnsureCalls
    /\ ensure' = [ensure EXCEPT ![p] =
                    IF qdrant_ok
                    THEN EnsureState("checked", qdrant_collections, "none", "",
                                     @.calls + 1)
                    ELSE EnsureState("idle", {}, "raised",
                                     "ResponseHandlingException", @.calls + 1)]
    /\ UNCHANGED <<qdrant_collections, qdrant_points, upsert, store, pipeline, api, units, embed_content>>

\* ensure_collection_exists, second half: create_collection() when the
\* name was not among those read, else nothing.
ensure_create_collection(p, qdrant_ok) ==
    /\ ensure[p].pc = "checked"
    /\ IF collection_name \notin ensure[p].collection_names
       THEN LET error == CreateCollectionError(qdrant_ok, qdrant_collections) IN
            /\ qdrant_collections' =
                  IF error = "" THEN qdrant_collections \cup {collection_name}
                  ELSE qdrant_collections
            /\ ensure' = [ensure EXCEPT ![p] =
                            EnsureState("idle", @.collection_names,
                                        IF error = "" THEN "returned" ELSE "raised",
                                        error, @.calls)]
       ELSE /\ ensure' = [ensure EXCEPT ![p] =
                            EnsureState("idle", @.collection_names, "returned",
                                        "", @.calls)]
            /\ UNCHANGED qdrant_collections
    /\ UNCHANGED <<qdrant_points, upsert, store, pipeline, api, units, embed_content>>

NextStartup ==
    \E p \in Processes, qdrant_ok \in BOOLEAN :
        \/ ensure_get_collections(p, qdrant_ok)
        \/ ensure_create_collection(p, qdrant_ok)

SpecStartup == Init /\ [][NextStartup]_vars

\* VectorStoreService.upsert_chunks.
upsert_chunks(chunks, embeddings, qdrant_ok) ==
    LET points == BuildPoints(qdrant_points, chunks, embeddings)
        error == UpsertError(qdrant_ok, qdrant_collections)
    IN
    /\ Cardinality(qdrant_points) + Len(chunks) <= MaxPoints
    /\ IF error = ""
       THEN /\ qdrant_points' = qdrant_points \cup Range(points)
            /\ upsert' = UpsertCall(chunks, embeddings, "",
                                    [i \in 1..Len(points) |-> points[i].id])
       ELSE /\ upsert' = UpsertCall(chunks, embeddings, error, <<>>)
            /\ UNCHANGED qdrant_points
    /\ UNCHANGED <<qdrant_collections, ensure, store, pipeline, api, units, embed_content>>

\* The indexing script: ensure_collection_exists, then a batch per file.
Indexer == CHOOSE p \in Processes : TRUE

NextIndex ==
    \/ \E qdrant_ok \in BOOLEAN : ensure_get_collections(Indexer, qdrant_ok)
    \/ \E qdrant_ok \in BOOLEAN : ensure_create_collection(Indexer, qdrant_ok)
    \/ \E chunks \in Batches(ChunkPayloads), embeddings \in Batches(Vectors),
          qdrant_ok \in BOOLEAN : upsert_chunks(chunks, embeddings, qdrant_ok)

SpecIndex == Init /\ [][NextIndex]_vars

-----------------------------------------------------------------------------
(* Two requests on one session that an earlier request created and whose ID
   the client holds: the session is stored, with no message yet or with
   the two messages of an earlier refusal turn. *)

SharedSid == CHOOSE k \in SessionIds : \A j \in SessionIds : k <= j

PriorTurn ==
    << UserMessage(1, SharedSid, Text("long out-of-scope question", 1000), None, 0),
       AssistantMessage(2, SharedSid, Refusal, <<>>, 0) >>

InitShared ==
    /\ chat_sessions = {SessionRow(SharedSid, 0, 0)}
    /\ chat_messages \in {<<>>, PriorTurn}
    /\ clock = 0
    /\ pc = [r \in Requests |-> "idle"]
    /\ request = [r \in Requests |-> NoRequest]
    /\ session_id = [r \in Requests |-> None]
    /\ conversation_history = [r \in Requests |-> <<>>]
    /\ query_embedding = [r \in Requests |-> None]
    /\ search_results = [r \in Requests |-> NotSearched]
    /\ retrieved_chunks = [r \in Requests |-> <<>>]
    /\ contents = [r \in Requests |-> <<>>]
    /\ response = [r \in Requests |-> NoText]
    /\ sources = [r \in Requests |-> <<>>]
    /\ calls = [r \in Requests |-> <<>>]
    /\ saved = [r \in Requests |-> <<>>]
    /\ outcome = [r \in Requests |-> Pending]
    /\ http = [r \in Requests |-> NoHttp]
    /\ api = NoCall
    /\ qdrant_collections = {}
    /\ qdrant_points = {}
    /\ ensure = [p \in Processes |-> NotStarted]
    /\ upsert = NoUpsert
    /\ InitUnits
    /\ embed_content = EmptyBag

NextShared ==
    \/ Tick
    \/ \E r \in Requests :
          \/ \E req \in { c \in ChatInputs :
                            c.session_id = Some(str(SharedSid)) } : chat(r, req)
          \/ Pipeline(r)
          \/ \E qdrant_ok \in BOOLEAN :
                search_index(r, ScoredPoints(query_embedding[r][1].text), qdrant_ok)

SpecShared == InitShared /\ [][NextShared]_vars

-----------------------------------------------------------------------------
(* Properties *)

Last(s) == s[Len(s)]

\* The call fn of request r was made and did not raise.
Completed(r, fn) ==
    /\ fn \in Range(calls[r])
    /\ ~(outcome[r].kind = "raised" /\ Last(calls[r]) = fn)

HasReturned(r) == outcome[r].kind = "returned"
ReturnValue(r) == outcome[r].value[1]

FilePaths(list) == { list[i].file_path : i \in 1..Len(list) }
FileScores(list) ==
    [i \in 1..Len(list) |-> <<list[i].file_path, list[i].relevance_score>>]

\* C1: whenever the vector search of a query returns zero chunks, the answer
\* is the fixed refusal, the sources are empty, and generate_response is not
\* called at any point of that query.
C1_EmptyRetrievalRefuses ==
    \A r \in Requests :
        (Completed(r, "search") /\ retrieved_chunks[r] = <<>>) =>
            /\ response[r] = Refusal
            /\ sources[r] = <<>>
            /\ "generate_response" \notin Range(calls[r])
            /\ HasReturned(r) =>
                  /\ ReturnValue(r).response = Refusal
                  /\ ReturnValue(r).sources = <<>>

C1_Witness ==
    \E r \in Requests :
        /\ Completed(r, "search") /\ retrieved_chunks[r] = <<>>
        /\ HasReturned(r)

\* C2: the returned sources hold no file path twice, exactly one source per
\* file path of the retrieved chunks, each with the highest score among the
\* retrieved chunks of its file (A@0.81, A@0.65, B@0.70 gives A@0.81, B@0.70).
C2_SourcesDeduplicated ==
    \A r \in Requests :
        HasReturned(r) =>
            LET srcs == ReturnValue(r).sources
                chunks == retrieved_chunks[r]
            IN  /\ \A i, j \in 1..Len(srcs) :
                      srcs[i].file_path = srcs[j].file_path => i = j
                /\ FilePaths(srcs) = FilePaths(chunks)
                /\ \A i \in 1..Len(srcs) :
                      /\ \E k \in 1..Len(chunks) :
                            /\ chunks[k].file_path = srcs[i].file_path
                            /\ chunks[k].relevance_score = srcs[i].relevance_score
                      /\ \A k \in 1..Len(chunks) :
                            chunks[k].file_path = srcs[i].file_path =>
                                chunks[k].relevance_score <= srcs[i].relevance_score
                /\ FileScores(chunks) = << <<"docs/ros2.md", 81>>,
                                           <<"docs/sim.md", 70>>,
                                           <<"docs/ros2.md", 65>> >>
                   => FileScores(srcs) = << <<"docs/ros2.md", 81>>,
                                            <<"docs/sim.md", 70>> >>

C2_Witness ==
    \E r \in Requests :
        /\ HasReturned(r)
        /\ FileScores(retrieved_chunks[r]) = << <<"docs/ros2.md", 81>>,
                                                <<"docs/sim.md", 70>>,
                                                <<"docs/ros2.md", 65>> >>
        /\ Len(ReturnValue(r).sources) = 2

\* C3: a process_query that returns after a search with at least one chunk
\* returns a non-empty sources list in non-increasing order of score.
C3_SourcesSortedDescending ==
    \A r \in Requests :
        (HasReturned(r) /\ retrieved_chunks[r] # <<>>) =>
            LET srcs == ReturnValue(r).sources IN
            /\ srcs # <<>>
            /\ \A i \in 1..(Len(srcs) - 1) :
                  srcs[i].relevance_score >= srcs[i + 1].relevance_score

C3_Witness ==
    \E r \in Requests :
        /\ HasReturned(r)
        /\ Len(retrieved_chunks[r]) = top_k_results
        /\ Len(ReturnValue(r).sources) = 3
        /\ ReturnValue(r).sources[1].relevance_score
             > ReturnValue(r).sources[3].relevance_score

SessionMessages(sid) ==
    { chat_messages[i] : i \in { j \in 1..Len(chat_messages) :
                                  chat_messages[j].session_id = sid } }

HistoryIds(r) ==
    { conversation_history[r][i].message_id : i \in 1..Len(conversation_history[r]) }

\* Every other request on r's session ended before r read the history: what
\* it wrote is in that history.
NoOtherRequestOnSession(r) ==
    \A q \in Requests \ {r} :
        session_id[q] = session_id[r] =>
            pc[q] = "done" /\ Range(saved[q]) \subseteq HistoryIds(r)

\* C4: a process_query that returns has added exactly two messages to its
\* session, one of role user holding the query and one of role assistant
\* holding the returned answer, on either branch; with no other request on
\* the session, the session holds exactly two messages more than before.
C4_TwoMessagesPerQuery ==
    \A r \in Requests :
        HasReturned(r) =>
            LET rows == SessionMessages(ReturnValue(r).session_id)
                mine == { m \in rows : m.message_id \in Range(saved[r]) }
            IN  /\ Cardinality(mine) = 2
                /\ Cardinality({ m \in mine : m.role = "user" }) = 1
                /\ Cardinality({ m \in mine : m.role = "assistant" }) = 1
                /\ \A m \in mine :
                      /\ m.role = "user" => m.content = request[r].sanitized_query
                      /\ m.role = "assistant" => m.content = ReturnValue(r).response
                /\ NoOtherRequestOnSession(r) =>
                      /\ { m \in rows : m.message_id \notin HistoryIds(r) } = mine
                      /\ Cardinality(rows) = Len(conversation_history[r]) + 2

C4_Witness ==
    \E r, q \in Requests :
        /\ r # q /\ HasReturned(r) /\ HasReturned(q)
        /\ NoOtherRequestOnSession(r)
        /\ Len(conversation_history[r]) = 2
        /\ Cardinality(SessionMessages(ReturnValue(r).session_id)) = 4
        /\ "generate_response" \in Range(calls[r])
        /\ "generate_response" \notin Range(calls[q])
        /\ ReturnValue(q).response = Refusal

\* C5: save_message ends in an error and leaves the message table as it was
\* for every call whose role is neither user nor assistant or whose content
\* is shorter than 1 or longer than 10000 characters; so every stored
\* message has role user or assistant and a content of 1 to 10000 characters.
C5_InvalidMessageRejected ==
    /\ [](\A i \in 1..Len(chat_messages) :
            /\ chat_messages[i].role \in {"user", "assistant"}
            /\ chat_messages[i].content.len \in 1..10000)
    /\ [][ ( /\ api'.fn = "save_message"
             /\ <<api, chat_messages>>' # <<api, chat_messages>>
             /\ ~( /\ api'.role \in {"user", "assistant"}
                   /\ api'.content.len \in 1..10000 ) )
           => (api'.raised /\ chat_messages' = chat_messages) ]_vars

C5_Witness ==
    /\ api.fn = "save_message" /\ api.raised
    /\ api.role = "user" /\ api.content.len = 10001
    /\ \E s \in chat_sessions : s.session_id = api.session_id
    /\ Len(chat_messages) = 1

SessionExists(sid) == \E s \in chat_sessions : s.session_id = sid

\* The request carried a session ID that process_query was given.
Supplied(r) == Truthy(request[r].session_id) /\ session_id[r] # None

\* C6 (as claimed): a query on a supplied session ID that names no stored
\* session reads an empty history without error and is then processed like
\* a first turn: it is never failed because the session does not exist.
C6_UnknownSessionProcessed ==
    \A r \in Requests :
        (Supplied(r) /\ ~SessionExists(session_id[r][1])) =>
            /\ Completed(r, "get_conversation_history") =>
                  conversation_history[r] = <<>>
            /\ outcome[r].error # "IntegrityError: chat_messages_session_id_fkey"

\* The steps of process_query in program order: create_session only when no
\* session ID was given, generate_response only on the non-empty branch.
StepOrder(create, gen) ==
    (IF create THEN <<"create_session">> ELSE <<>>)
    \o <<"get_conversation_history", "generate_embedding", "search">>
    \o (IF gen THEN <<"generate_response">> ELSE <<>>)
    \o <<"save_message:user", "save_message:assistant">>

IsPrefix(s, t) == Len(s) <= Len(t) /\ s = SubSeq(t, 1, Len(s))

\* C7: a process_query in which a step failed raises and returns nothing,
\* and the chat endpoint answers it with the generic status-500 error that
\* carries no answer and no sources; a process_query returns only after
\* every step ran, and it skips generation only after an empty retrieval.
C7_FailureAbortsQuery ==
    \A r \in Requests :
        /\ outcome[r].kind = "raised" =>
              /\ outcome[r].value = None
              /\ http[r] = Http500
              /\ http[r].message = None /\ http[r].sources = None
        /\ (pc[r] = "done" /\ outcome[r].kind = "pending") => http[r] = Http400
        /\ http[r].status = 200 <=> HasReturned(r)
        /\ HasReturned(r) =>
              /\ \E create \in BOOLEAN :
                    calls[r] = StepOrder(create, retrieved_chunks[r] # <<>>)
              /\ http[r].message = Some(ReturnValue(r).response)
              /\ http[r].sources = Some(ReturnValue(r).sources)
        /\ (pc[r] = "done" /\ ~HasReturned(r)) => http[r].status \in {400, 500}

C7_Witness ==
    \E r, q \in Requests :
        /\ outcome[r] = Raised("GenerationError") /\ http[r] = Http500
        /\ outcome[q] = Raised("OperationalError")
        /\ Last(calls[q]) = "save_message:assistant"

UserRows(sid) == { m \in SessionMessages(sid) : m.role = "user" }
AssistantRows(sid) == { m \in SessionMessages(sid) : m.role = "assistant" }

\* C8: when the assistant-message save fails after the user message was
\* saved, the query is reported as failed and the user message stays in the
\* table; a session holds one assistant message per query that returned and
\* one user message per query whose user-message save went through.
C8_NoCompensatingDelete ==
    /\ \A r \in Requests :
          (outcome[r].kind = "raised" /\ Last(calls[r]) = "save_message:assistant") =>
              /\ http[r] = Http500
              /\ Len(saved[r]) = 1
              /\ \E m \in UserRows(session_id[r][1]) :
                    /\ m.message_id = saved[r][1]
                    /\ m.content = request[r].sanitized_query
    /\ \A sid \in Uuids :
          /\ Cardinality(AssistantRows(sid)) =
                Cardinality({ r \in Requests :
                                HasReturned(r) /\ session_id[r] = Some(sid) })
          /\ Cardinality(UserRows(sid)) =
                Cardinality({ r \in Requests :
                                /\ session_id[r] = Some(sid)
                                /\ Completed(r, "save_message:user") })

C8_Witness ==
    \E r, q \in Requests :
        /\ outcome[r].kind = "raised" /\ Last(calls[r]) = "save_message:assistant"
        /\ HasReturned(q) /\ session_id[q] = session_id[r]
        /\ request[q].sanitized_query = request[r].sanitized_query
        /\ Cardinality(UserRows(session_id[r][1])) = 2
        /\ Cardinality(AssistantRows(session_id[r][1])) = 1

\* C9: the calls of one process_query follow the program order (session
\* creation, history load, embedding, search, generation on the non-empty
\* branch only, user save, assistant save), each made at most once; the
\* history it holds, which is what the generator is handed, was read before
\* its own writes and holds neither of its two messages.
C9_LinearStepOrder ==
    \A r \in Requests :
        /\ \E gen \in BOOLEAN :
              IsPrefix(calls[r], StepOrder(request[r].session_id = None
                                             \/ ~Truthy(request[r].session_id), gen))
        /\ "generate_response" \in Range(calls[r]) =>
              /\ retrieved_chunks[r] # <<>>
              /\ Len(contents[r]) = 1 + Min(Len(conversation_history[r]),
                                           max_conversation_context)
              /\ \A i \in 1..(Len(contents[r]) - 1) :
                    \E j \in 1..Len(conversation_history[r]) :
                        contents[r][i].parts = <<conversation_history[r][j].content>>
        /\ \A id \in Range(saved[r]) :
              /\ id \notin HistoryIds(r)
              /\ \A old \in HistoryIds(r) : old < id

C9_Witness ==
    \E r \in Requests :
        /\ HasReturned(r)
        /\ calls[r] = StepOrder(FALSE, TRUE)
        /\ Len(conversation_history[r]) = 2
        /\ Len(contents[r]) = 3
        /\ Cardinality(SessionMessages(session_id[r][1])) = 4

\* C10: a process_query that returns was either given a session ID, which
\* it returns unchanged without creating a session, or given none (the chat
\* endpoint passes none for a missing or empty session_id), in which case it
\* created exactly one session, read an empty history for it and returns its
\* ID; an empty session_id is never answered as a malformed one.
C10_SessionResolution ==
    /\ \A r \in Requests :
          /\ HasReturned(r) =>
                IF Truthy(request[r].session_id)
                THEN /\ str(ReturnValue(r).session_id) = request[r].session_id[1]
                     /\ "create_session" \notin Range(calls[r])
                ELSE /\ calls[r][1] = "create_session"
                     /\ Cardinality({ i \in 1..Len(calls[r]) :
                                        calls[r][i] = "create_session" }) = 1
                     /\ conversation_history[r] = <<>>
                     /\ SessionExists(ReturnValue(r).session_id)
                     /\ \A q \in Requests \ {r} :
                           Completed(q, "create_session") =>
                               session_id[q] # Some(ReturnValue(r).session_id)
          /\ HasReturned(r) => http[r].session_id = Some(str(ReturnValue(r).session_id))
          /\ (pc[r] = "done" /\ request[r].session_id = Some(Text("", 0))) =>
                /\ http[r].status # 400
                /\ calls[r][1] = "create_session"
    /\ Cardinality(chat_sessions) =
          Cardinality({ r \in Requests : Completed(r, "create_session") })

C10_Witness ==
    \E r, q \in Requests :
        /\ HasReturned(r) /\ request[r].session_id = Some(Text("", 0))
        /\ HasReturned(q) /\ Truthy(request[q].session_id)
        /\ ReturnValue(q).session_id = ReturnValue(r).session_id
        /\ Cardinality(chat_sessions) = 1

\* C11: the assistant message a returned query saved carries a context_used
\* payload listing every retrieved chunk (title, file path, score) in
\* retrieval order, duplicates of a file included, with retrieval_count the
\* number of retrieved chunks; after an empty retrieval the payload is saved
\* with no chunk and count 0.  The user message holds the query and the
\* selected text, and was written before the assistant message.
C11_ContextUsedPayload ==
    \A r \in Requests :
        HasReturned(r) =>
            /\ Len(saved[r]) = 2
            /\ saved[r][1] < saved[r][2]
            /\ LET user == chat_messages[saved[r][1]]
                   assistant == chat_messages[saved[r][2]]
                   chunks == retrieved_chunks[r]
               IN  /\ user.role = "user"
                   /\ user.content = request[r].sanitized_query
                   /\ user.selected_text = request[r].sanitized_selected_text
                   /\ user.created_at <= assistant.created_at
                   /\ assistant.role = "assistant"
                   /\ assistant.context_used # None
                   /\ LET payload == assistant.context_used[1] IN
                      /\ payload.retrieval_count = Len(chunks)
                      /\ Len(payload.chunks) = Len(chunks)
                      /\ \A i \in 1..Len(chunks) :
                            /\ payload.chunks[i].title = chunks[i].title
                            /\ payload.chunks[i].file_path = chunks[i].file_path
                            /\ payload.chunks[i].relevance_score
                                 = chunks[i].relevance_score
                      /\ ReturnValue(r).response = Refusal =>
                            payload = [chunks |-> <<>>, retrieval_count |-> 0]

C11_Witness ==
    \E r, q \in Requests :
        /\ HasReturned(r) /\ HasReturned(q)
        /\ Len(retrieved_chunks[r]) = 3 /\ Len(ReturnValue(r).sources) = 2
        /\ chat_messages[saved[r][2]].context_used[1].retrieval_count = 3
        /\ chat_messages[saved[r][1]].selected_text # None
        /\ ReturnValue(q).response = Refusal
        /\ chat_messages[saved[q][2]].context_used[1].retrieval_count = 0

\* The list h holds exactly the stored messages of session sid, each once
\* and with its stored fields, in non-decreasing order of creation time.
IsHistoryOf(h, sid) ==
    LET mine == { i \in 1..Len(chat_messages) :
                    chat_messages[i].session_id = sid }
    IN  /\ Len(h) = Cardinality(mine)
        /\ { h[i].message_id : i \in 1..Len(h) }
             = { chat_messages[i].message_id : i \in mine }
        /\ \A i \in 1..Len(h) :
              \E j \in mine : h[i] = HistoryEntry(chat_messages[j])
        /\ \A i \in 1..(Len(h) - 1) : h[i].created_at <= h[i + 1].created_at

\* C12: in every reachable state of the message table and for every session
\* ID, get_conversation_history returns exactly the messages stored for that
\* session, none of another session and none missing, ordered so that the
\* creation times never decrease.
C12_HistoryExactAndOrdered ==
    /\ \A sid \in Uuids :
          \A h \in get_conversation_history(chat_messages, sid) :
              IsHistoryOf(h, sid)
    /\ (api.fn = "get_conversation_history" /\ ~api.raised) =>
          IsHistoryOf(api.result, api.session_id)

C12_Witness ==
    /\ api.fn = "get_conversation_history" /\ ~api.raised
    /\ Len(chat_messages) = 2
    /\ chat_messages[1].session_id # chat_messages[2].session_id
    /\ chat_messages[1].created_at < chat_messages[2].created_at
    /\ api.session_id = chat_messages[2].session_id
    /\ Len(api.result) = 1

\* C13: get_conversation_history for a session ID with no session row or no
\* message returns the empty list and raises nothing; the only error it ends
\* in is the one of an unreachable database.
C13_MissingSessionReadsEmpty ==
    api.fn = "get_conversation_history" =>
        /\ api.raised <=> api.error = "OperationalError"
        /\ api.error \in {"", "OperationalError"}
        /\ ( /\ api.error # "OperationalError"
             /\ \/ ~SessionExists(api.session_id)
                \/ SessionMessages(api.session_id) = {} )
           => (~api.raised /\ api.result = <<>>)

C13_Witness ==
    /\ api.fn = "get_conversation_history"
    /\ ~api.raised /\ api.result = <<>>
    /\ ~SessionExists(api.session_id)
    /\ chat_sessions # {} /\ chat_messages # <<>>

\* The history entry e carries the values the save_message call c was given.
CarriesSavedValues(e, c) ==
    /\ e.role = c.role
    /\ e.content = c.content
    /\ e.selected_text = c.selected_text
    /\ e.context_used = c.context_used

\* C14: after a save_message call that succeeded, every list
\* get_conversation_history returns for its session holds a message whose
\* role, content, selected text and context-used payload are the saved
\* values, and holds the messages saved earlier unchanged; a read that
\* directly follows the save returns such a list.
C14_SaveThenReadRoundTrip ==
    /\ [][ (api'.fn = "save_message" /\ ~api'.raised
            /\ chat_messages' # chat_messages)
           => /\ Len(chat_messages') = Len(chat_messages) + 1
              /\ SubSeq(chat_messages', 1, Len(chat_messages)) = chat_messages
              /\ \A sid \in Uuids :
                    \A h \in get_conversation_history(chat_messages', sid) :
                        /\ sid = api'.session_id =>
                              \E i \in 1..Len(h) :
                                  /\ CarriesSavedValues(h[i], api')
                                  /\ h[i].message_id = Len(chat_messages')
                        /\ \A old \in get_conversation_history(chat_messages, sid) :
                              Range(old) \subseteq Range(h) ]_vars
    /\ [][ (api.fn = "save_message" /\ ~api.raised
            /\ api'.fn = "get_conversation_history" /\ ~api'.raised
            /\ api'.session_id = api.session_id)
           => \E i \in 1..Len(api'.result) :
                 CarriesSavedValues(api'.result[i], api) ]_vars

C14_Witness ==
    /\ api.fn = "get_conversation_history" /\ ~api.raised
    /\ Len(api.result) = 2
    /\ api.result[1].selected_text # None /\ api.result[1].context_used = None
    /\ api.result[2].selected_text = None /\ api.result[2].context_used # None
    /\ api.result[2].content.len = MaxContent

\* C15: a save_message call leaves the set of sessions as it was, a session
\* appears only through create_session, and every stored message belongs to
\* exactly one stored session: a save for a session ID without a session row
\* raises and writes nothing.
C15_MessageWriteCreatesNoSession ==
    /\ [](\A i \in 1..Len(chat_messages) :
            Cardinality({ s \in chat_sessions :
                            s.session_id = chat_messages[i].session_id }) = 1)
    /\ [][ chat_sessions' # chat_sessions
           => /\ api'.fn = "create_session" /\ ~api'.raised
              /\ chat_messages' = chat_messages
              /\ \E s \in chat_sessions' :
                    /\ chat_sessions' = chat_sessions \cup {s}
                    /\ s.session_id = api'.session_id ]_vars
    /\ [][ (api'.fn = "save_message"
            /\ <<api, chat_messages>>' # <<api, chat_messages>>)
           => /\ chat_sessions' = chat_sessions
              /\ ~SessionExists(api'.session_id) =>
                    (api'.raised /\ chat_messages' = chat_messages) ]_vars

C15_Witness ==
    /\ api.fn = "save_message" /\ api.raised
    /\ api.error = "IntegrityError: chat_messages_session_id_fkey"
    /\ ~SessionExists(api.session_id)
    /\ chat_sessions # {} /\ Len(chat_messages) = 1

\* The rows request r saved.
SavedRows(r) ==
    { m \in Range(chat_messages) : m.message_id \in Range(saved[r]) }

\* C16: when two process_query calls on one session both return, whatever
\* the interleaving of their history reads and message writes, no message
\* is lost or overwritten: the session holds its earlier messages and four
\* more, a user and an assistant message of each call; and the history each
\* call loaded holds only messages committed before that call's own writes.
C16_ConcurrentSameSession ==
    \A r, q \in Requests :
        (r # q /\ HasReturned(r) /\ HasReturned(q)
         /\ session_id[r] = session_id[q]) =>
            LET sid == session_id[r][1]
                rows == SessionMessages(sid)
                before == rows \ (SavedRows(r) \cup SavedRows(q))
            IN  /\ SavedRows(r) \cap SavedRows(q) = {}
                /\ SavedRows(r) \cup SavedRows(q) \subseteq rows
                /\ before \in {{}, Range(PriorTurn)}
                /\ Cardinality(rows) = Cardinality(before) + 4
                /\ Cardinality(UserRows(sid) \ before) = 2
                /\ Cardinality(AssistantRows(sid) \ before) = 2
                /\ \A x \in {r, q} :
                      /\ \E m \in SavedRows(x) :
                            /\ m.role = "user"
                            /\ m.content = request[x].sanitized_query
                      /\ \E m \in SavedRows(x) :
                            /\ m.role = "assistant"
                            /\ m.content = ReturnValue(x).response
                      /\ { m.message_id : m \in before } \subseteq HistoryIds(x)
                      /\ \A id \in HistoryIds(x) :
                            /\ \E m \in rows : m.message_id = id
                            /\ \A own \in Range(saved[x]) : id < own

C16_Witness ==
    \E r, q \in Requests :
        /\ r # q /\ HasReturned(r) /\ HasReturned(q)
        /\ session_id[r] = session_id[q]
        /\ Len(conversation_history[r]) = 2
        /\ Len(conversation_history[q]) = 3
        /\ saved[r][1] < saved[q][1] /\ saved[q][1] < saved[r][2]
        /\ saved[r][2] < saved[q][2]
        /\ Cardinality(SessionMessages(session_id[r][1])) = 6

\* C17 (as claimed): a request that writes messages to a session also
\* writes the session's last-activity time, so that a session's
\* last_activity_at is never older than the creation time of any of its
\* messages, also after two concurrent requests on it.
C17_LastActivityFollowsWrites ==
    \A s \in chat_sessions :
        \A m \in SessionMessages(s.session_id) :
            s.last_activity_at >= m.created_at

\* C18: every stored session has last_activity_at >= created_at, from the
\* insert by create_session on: the two timestamps are separate readings of
\* the clock, and a row whose readings are the other way round is refused.
C18_ActivityNotBeforeCreation ==
    /\ [](\A s \in chat_sessions : s.last_activity_at >= s.created_at)
    /\ [][ \A s \in chat_sessions' \ chat_sessions :
              /\ s.last_activity_at >= s.created_at
              /\ api'.fn = "create_session" /\ ~api'.raised ]_vars

C18_Witness ==
    /\ api.fn = "create_session" /\ ~api.raised
    /\ \E s \in chat_sessions :
          /\ s.session_id = api.session_id
          /\ s.last_activity_at > s.created_at
    /\ \E s \in chat_sessions : s.last_activity_at = s.created_at

\* C19 (as claimed): ensure_collection_exists is create-or-noop: whether
\* called once, again, or by several starting processes at once, no call
\* fails because the collection exists by the time of its create, and after
\* a call that returned exactly the one collection exists.
C19_EnsureCollectionCreateOrNoop ==
    \A p \in Processes :
        /\ ensure[p].error # "UnexpectedResponse: 409 Conflict"
        /\ ensure[p].outcome = "raised" =>
              ensure[p].error = "ResponseHandlingException"
        /\ ensure[p].outcome = "returned" =>
              qdrant_collections = {collection_name}

\* C20 (as claimed): an upsert_chunks call that does not raise has written
\* every chunk of its input, chunk i with vector i under an ID of its own
\* that no other point has; a call given lists of different lengths does
\* not end well with only a part of the chunks written.
C20_UpsertWholeBatch ==
    (upsert.called /\ ~upsert.raised) =>
        /\ Len(upsert.ids) = Len(upsert.chunks)
        /\ \A i, j \in 1..Len(upsert.ids) :
              upsert.ids[i] = upsert.ids[j] => i = j
        /\ \A i \in 1..Len(upsert.chunks) :
              /\ i <= Len(upsert.embeddings)
              /\ i <= Len(upsert.ids)
              /\ \E pt \in qdrant_points :
                    /\ pt.id = upsert.ids[i]
                    /\ pt.payload = upsert.chunks[i]
                    /\ pt.vector = upsert.embeddings[i]
              /\ Cardinality({ pt \in qdrant_points : pt.id = upsert.ids[i] }) = 1

\* C21: search returns at most top_k entries, each scoring at least the
\* threshold, best first, and the empty list (no error) when no point
\* clears the threshold; its output has one entry per hit of the index, in
\* the same order with the same payload fields and score; and when the
\* index call fails, search raises: the query ends in that error and never
\* goes on with an empty or partial list.
C21_SearchReturnsIndexHits ==
    \A r \in Requests :
        LET hits == search_results[r].hits
            chunks == retrieved_chunks[r]
        IN  /\ search_results[r].state = "returned" =>
                  /\ Completed(r, "search")
                  /\ Len(chunks) = Len(hits)
                  /\ Len(chunks) <= top_k_results
                  /\ \A i \in 1..Len(chunks) :
                        /\ chunks[i].relevance_score >= similarity_threshold
                        /\ chunks[i].relevance_score = hits[i].relevance_score
                        /\ chunks[i].title = hits[i].title
                        /\ chunks[i].file_path = hits[i].file_path
                        /\ chunks[i].chunk_text = hits[i].chunk_text
                        /\ chunks[i].chunk_index = hits[i].chunk_index
                        /\ chunks[i].total_chunks = hits[i].total_chunks
                  /\ \A i \in 1..(Len(chunks) - 1) :
                        chunks[i].relevance_score >= chunks[i + 1].relevance_score
            /\ search_results[r].state = "raised" =>
                  /\ outcome[r] = Raised("VectorStoreError")
                  /\ Last(calls[r]) = "search"
                  /\ chunks = <<>> /\ response[r] = NoText
                  /\ saved[r] = <<>>
            /\ "search" \in Range(calls[r]) <=> search_results[r].state # "none"

C21_Witness ==
    \E r \in Requests :
        /\ search_results[r].state = "returned"
        /\ Len(retrieved_chunks[r]) = top_k_results
        /\ retrieved_chunks[r][1].relevance_score = 81
        /\ retrieved_chunks[r][top_k_results].relevance_score = 65
        /\ HasReturned(r)

-----------------------------------------------------------------------------
(* The history window of the generator, for every configured size *)

MaxContext == 3
MaxHistory == 3

\* MAX_CONVERSATION_CONTEXT in the environment: any integer from 0 on, or
\* absent (the default).
ContextSizes == 0..MaxContext \cup {max_conversation_context}

\* A loaded history of k messages, user and assistant turns alternating.
LoadedMessage(i) ==
    HistoryEntry(MessageRow(i, 1, IF i % 2 = 1 THEN "user" ELSE "assistant",
                            Text("turn", i), None, None, 0))
LoadedHistory(k) == [i \in 1..k |-> LoadedMessage(i)]

\* Settings() reads the environment once, before any call.
load_settings(n) ==
    /\ ~llm_call.called
    /\ settings = DefaultSettings
    /\ settings' = [settings EXCEPT !.max_conversation_context = n]
    /\ UNCHANGED <<store, pipeline, api, index, embed_content, llm_call, health, history_http, embed_batch, sanitize, chunker>>

build_history_call(k, current_query, selected_text) ==
    /\ ~llm_call.called
    /\ llm_call' = LlmCall(LoadedHistory(k), current_query, selected_text,
                           build_conversation_history(LoadedHistory(k), current_query,
                                                      selected_text))
    /\ UNCHANGED <<store, pipeline, api, index, embed_content, settings, health, history_http, embed_batch, sanitize, chunker>>

NextContext ==
    \/ \E n \in ContextSizes : load_settings(n)
    \/ \E k \in 0..MaxHistory, q \in Queries,
          sel \in SelectedTexts \cup {Some(Text("", 0))} :
          build_history_call(k, q, sel)

SpecContext == Init /\ [][NextContext]_vars

\* C22: the generator is handed exactly the last N messages of the loaded
\* history (N = max_conversation_context, any N >= 0), in their order,
\* followed by the current turn: never more than N prior messages.
C22_LastNPriorTurns ==
    llm_call.called =>
        LET N == settings.max_conversation_context
            history == llm_call.conversation_messages
            prior == SubSeq(llm_call.messages, 1, Len(llm_call.messages) - 1)
            kept == Min(N, Len(history))
        IN  /\ Len(llm_call.messages) >= 1
            /\ Last(llm_call.messages).role = "user"
            /\ Last(Last(llm_call.messages).parts) = llm_call.current_query
            /\ Len(prior) <= N
            /\ Len(prior) = kept
            /\ \A i \in 1..Len(prior) :
                  /\ prior[i].role = history[Len(history) - kept + i].role
                  /\ prior[i].parts = <<history[Len(history) - kept + i].content>>

-----------------------------------------------------------------------------
(* GET /health, while sessions are created and the collection is ensured *)

\* health_check: RAGService() is built inside the try; a failure there is
\* answered 503 with status "error".
health_check(constructed) ==
    /\ health.pc = "idle"
    /\ health' = IF constructed
                 THEN [health EXCEPT !.pc = "qdrant"]
                 ELSE HealthState("done", NoServices, FALSE, 503, "error")
    /\ UNCHANGED <<store, pipeline, api, index, embed_content, settings, llm_call, history_http, embed_batch, sanitize, chunker>>

\* RAGService.check_health: one probe after the other, one entry each.
check_health_probe(name, probe) ==
    /\ \E i \in 1..Len(Dependencies) :
          /\ Dependencies[i] = name
          /\ health.pc = name
          /\ health' = [health EXCEPT
                          !.pc = IF i < Len(Dependencies) THEN Dependencies[i + 1]
                                 ELSE "respond",
                          !.probes = Append(@, probe),
                          !.services = (name :> HealthStatus(service_check_health(name, probe)))
                                       @@ @]
    /\ UNCHANGED <<store, pipeline, api, index, embed_content, settings, llm_call, history_http, embed_batch, sanitize, chunker>>

\* health_check after check_health returned.
health_respond ==
    /\ health.pc = "respond"
    /\ health' = IF all_healthy(health.services)
                 THEN [health EXCEPT !.pc = "done", !.status_code = 200,
                                     !.status = "healthy"]
                 ELSE [health EXCEPT !.pc = "done", !.status_code = 503,
                                     !.status = "degraded"]
    /\ UNCHANGED <<store, pipeline, api, index, embed_content, settings, llm_call, history_http, embed_batch, sanitize, chunker>>

HealthStep ==
    \/ \E constructed \in BOOLEAN : health_check(constructed)
    \/ \E name \in Range(Dependencies) :
          \E probe \in ProbeOutcomes(name) : check_health_probe(name, probe)
    \/ health_respond

NextHealth ==
    \/ HealthStep
    \/ \E created_at \in Now, active_at \in Now : create_session(TRUE, created_at, active_at)
    \/ \E qdrant_ok \in BOOLEAN : ensure_get_collections(Indexer, qdrant_ok)
    \/ \E qdrant_ok \in BOOLEAN : ensure_create_collection(Indexer, qdrant_ok)

SpecHealth == Init /\ [][NextHealth]_vars

\* The dict of check_health against the probes that ran.
HealthReport ==
    /\ ~health.raised
    /\ Len(health.probes) = Cardinality(DOMAIN health.services)
    /\ \A i \in 1..Len(health.probes) :
          /\ Dependencies[i] \in DOMAIN health.services
          /\ health.services[Dependencies[i]] \in {"up", "down"}
          /\ health.services[Dependencies[i]] = "up"
                <=> health.probes[i] \in {"ok", "text"}
    /\ health.pc \in {"respond", "done"} /\ health.status # "error" =>
          DOMAIN health.services = Range(Dependencies)
    /\ health.pc = "done" =>
          /\ health.status = "healthy"
                <=> /\ DOMAIN health.services = Range(Dependencies)
                    /\ \A name \in Range(Dependencies) : health.services[name] = "up"
          /\ health.status_code = 200 <=> health.status = "healthy"

\* C23: check_health never raises; once it has returned, its dict has one
\* entry per dependency, "up" exactly when that dependency's probe
\* succeeded and "down" when it failed or threw; a failing probe does not
\* keep the later ones from running; the endpoint answers "healthy"
\* exactly when all three are "up"; and no step of the health check changes
\* a table of the store or the collections and points of the index.
C23_HealthCheck ==
    /\ []HealthReport
    /\ [][health' # health =>
            UNCHANGED <<store, qdrant_collections, qdrant_points>>]_vars

C23_Witness ==
    /\ health.pc = "done"
    /\ health.probes = <<"raised", "ok", "no text">>
    /\ health.services["qdrant"] = "down"
    /\ health.services["postgres"] = "up"
    /\ health.services["openai"] = "down"
    /\ health.status = "degraded"
    /\ chat_sessions # {}
    /\ collection_name \in qdrant_collections

-----------------------------------------------------------------------------
(* GET /sessions/{session_id}/history *)

\* What a client can put in the path: a malformed string or a well-formed
\* UUID, of a stored session or not.
HistoryPathInputs == {Text("not-a-uuid", 10)} \cup { str(k) : k \in Uuids }

\* "if not messages": the list that came back is empty.
NotMessages(messages) == messages = <<>>

\* The ChatMessage built for one history entry.
ChatMessage(session_uuid, msg) ==
    [message_id |-> msg.message_id, session_id |-> session_uuid, role |-> msg.role,
     content |-> msg.content, selected_text |-> msg.selected_text,
     context_used |-> msg.context_used, created_at |-> msg.created_at]

get_session_history(sid, db_ok) ==
    /\ IF ~validate_session_id(sid)
       THEN history_http' = HistoryHttp(sid, 400, "Invalid session ID format", <<>>)
       ELSE LET session_uuid == UUID(sid) IN
            IF HistoryError(db_ok, chat_sessions, session_uuid) # ""
            THEN history_http' =
                    HistoryHttp(sid, 500,
                                "An error occurred while retrieving session history.",
                                <<>>)
            ELSE \E messages \in get_conversation_history(chat_messages, session_uuid) :
                    history_http' =
                       IF NotMessages(messages)
                       THEN HistoryHttp(sid, 404, "Session not found", <<>>)
                       ELSE HistoryHttp(sid, 200, "",
                                        [i \in 1..Len(messages) |->
                                            ChatMessage(session_uuid, messages[i])])
    /\ UNCHANGED <<store, pipeline, api, index, embed_content, settings, llm_call, health, embed_batch, sanitize, chunker>>

NextHistory ==
    \/ Tick
    \/ \E created_at \in Now, active_at \in Now : create_session(TRUE, created_at, active_at)
    \/ \E sid \in Uuids, a \in SaveArguments :
          save_message_call(TRUE, sid, a[1], a[2], a[3], a[4])
    \/ \E sid \in HistoryPathInputs, db_ok \in BOOLEAN : get_session_history(sid, db_ok)

SpecHistory == Init /\ [][NextHistory]_vars

\* C24 (as claimed): the history endpoint answers "Session not found"
\* exactly for session IDs that name no stored session: a stored session
\* without messages is not reported as not found, and a session with
\* messages is returned with all its messages.
C24_NotFoundOnlyForUnknownSession ==
    [][(history_http' # history_http /\ history_http'.status \in {200, 404}) =>
          LET sid == UUID(history_http'.session_id) IN
          /\ history_http'.status = 404 <=> ~SessionExists(sid)
          /\ history_http'.status = 200 =>
                { m.message_id : m \in Range(history_http'.messages) }
                   = { m.message_id : m \in SessionMessages(sid) }]_vars

-----------------------------------------------------------------------------
(* Embedding: the query of one request, and the chunk batches of index_docs *)

\* The chunk texts index_docs hands to generate_embeddings_batch.
ChunkTexts == { c.chunk_text : c \in ChunkPayloads }

\* EmbeddingService.generate_embeddings_batch: one embed_content request
\* for the whole list; the except clause logs and re-raises.
generate_embeddings_batch(texts, api_ok) ==
    /\ ~embed_batch.called
    /\ embed_content' = embed_content (+) SetToBag({
            EmbedContent("batch", texts, BatchTaskType)})
    /\ embed_batch' = IF api_ok
                      THEN EmbedBatch(texts, FALSE,
                                      [i \in 1..Len(texts) |->
                                          [task_type |-> BatchTaskType,
                                           text |-> texts[i]]])
                      ELSE EmbedBatch(texts, TRUE, <<>>)
    /\ UNCHANGED <<store, pipeline, api, index, settings, llm_call, health, history_http,
                   sanitize, chunker>>

NextEmbed ==
    \/ \E req \in ChatInputs : chat(OneRequest, req)
    \/ Pipeline(OneRequest)
    \/ \E qdrant_ok \in BOOLEAN :
          search_index(OneRequest, ScoredPoints(query_embedding[OneRequest][1].text),
                       qdrant_ok)
    \/ \E texts \in Batches(ChunkTexts), api_ok \in BOOLEAN :
          generate_embeddings_batch(texts, api_ok)

SpecEmbed == Init /\ [][NextEmbed]_vars

\* How many times x occurs in the sequence s.
Occurrences(s, x) == Cardinality({ i \in 1..Len(s) : s[i] = x })

\* C25: every single-text embedding request asks for query mode and every
\* batch request for document mode: the query of a chat request is only
\* ever embedded in query mode and chunk texts only in document mode; and
\* a failed provider request is raised to the caller after that one
\* request, never sent again.
C25_EmbeddingModes ==
    /\ \A e \in BagToSet(embed_content) :
          /\ e.shape = "single" =>
                /\ e.task_type = "RETRIEVAL_QUERY"
                /\ Len(e.contents) = 1 /\ e.contents[1] \in Queries
          /\ e.shape = "batch" =>
                /\ e.task_type = "RETRIEVAL_DOCUMENT"
                /\ \A i \in 1..Len(e.contents) : e.contents[i] \in ChunkTexts
    /\ \A r \in Requests :
          /\ query_embedding[r] # None =>
                /\ query_embedding[r][1].task_type = "RETRIEVAL_QUERY"
                /\ query_embedding[r][1].text = request[r].sanitized_query
          /\ outcome[r] = Raised("EmbeddingError") =>
                /\ Last(calls[r]) = "generate_embedding"
                /\ query_embedding[r] = None
    /\ embed_batch.called =>
          /\ embed_batch.raised => embed_batch.embeddings = <<>>
          /\ ~embed_batch.raised =>
                /\ Len(embed_batch.embeddings) = Len(embed_batch.texts)
                /\ \A i \in 1..Len(embed_batch.texts) :
                      embed_batch.embeddings[i]
                         = [task_type |-> "RETRIEVAL_DOCUMENT",
                            text |-> embed_batch.texts[i]]
    /\ BagCardinality(embed_content)
          = Cardinality({ r \in Requests : Occurrences(calls[r], "generate_embedding") = 1 })
            + (IF embed_batch.called THEN 1 ELSE 0)
    /\ \A r \in Requests : Occurrences(calls[r], "generate_embedding") <= 1

C25_Witness ==
    /\ embed_batch.called /\ embed_batch.raised
    /\ Len(embed_batch.texts) = 2
    /\ outcome[OneRequest] = Raised("EmbeddingError")
    /\ BagCardinality(embed_content) = 2

-----------------------------------------------------------------------------
(* The refusal branch and the selected text *)

\* Request r carried a selected text and its retrieval came back empty.
RefusedWithSelectedText(r) ==
    /\ Truthy(request[r].sanitized_selected_text)
    /\ Completed(r, "search")
    /\ search_results[r].state = "returned"
    /\ retrieved_chunks[r] = <<>>

\* On the refusal branch the generator is not called and the answer is the
\* fixed refusal without sources.
NotGeneratedNotAnswered(r) ==
    /\ "generate_response" \notin Range(calls[r])
    /\ contents[r] = <<>>
    /\ response[r] = Refusal /\ sources[r] = <<>>
    /\ HasReturned(r) =>
          ReturnValue(r).response = Refusal /\ ReturnValue(r).sources = <<>>

\* C26 (as claimed): with a selected text and an empty retrieval, the
\* selected text is discarded entirely: it reaches neither the generator
\* nor the response nor the messages persisted for that turn.
C26_SelectedTextDiscarded ==
    \A r \in Requests :
        RefusedWithSelectedText(r) =>
            /\ NotGeneratedNotAnswered(r)
            /\ \A i \in 1..Len(saved[r]) :
                  chat_messages[saved[r][i]].selected_text = None

\* C26 (amended): with a selected text and an empty retrieval, the selected
\* text reaches neither the generator nor the response, but it is persisted
\* with the user message of that turn (the assistant message has none).
C26_SelectedTextOnlyPersisted ==
    \A r \in Requests :
        RefusedWithSelectedText(r) =>
            /\ NotGeneratedNotAnswered(r)
            /\ Len(saved[r]) >= 1 =>
                  /\ chat_messages[saved[r][1]].role = "user"
                  /\ chat_messages[saved[r][1]].selected_text
                        = request[r].sanitized_selected_text
            /\ Len(saved[r]) = 2 =>
                  chat_messages[saved[r][2]].selected_text = None

C26_Witness ==
    \E r \in Requests :
        /\ RefusedWithSelectedText(r)
        /\ HasReturned(r)
        /\ ReturnValue(r).response = Refusal
        /\ chat_messages[saved[r][1]].selected_text = Some(Text("selected passage", 16))

-----------------------------------------------------------------------------
(* The order of a turn's two messages in the history *)

\* Where the message with ID mid stands in the list h.
PositionOf(h, mid) == CHOOSE i \in 1..Len(h) : h[i].message_id = mid

\* C27 (as claimed): after a process_query that returned, every list
\* get_conversation_history can return for its session has that turn's user
\* message before that turn's assistant message, also when the two rows
\* have the same created_at.
C27_UserBeforeAssistantInHistory ==
    \A r \in Requests :
        HasReturned(r) =>
            \A h \in get_conversation_history(chat_messages, ReturnValue(r).session_id) :
                PositionOf(h, saved[r][1]) < PositionOf(h, saved[r][2])

-----------------------------------------------------------------------------
(* What a failed query leaves behind *)

\* process_query of r raised in one of the steps before the two saves.
FailedBeforeSaving(r) ==
    /\ outcome[r].kind = "raised"
    /\ Last(calls[r]) \in {"get_conversation_history", "generate_embedding",
                           "search", "generate_response"}

\* r wrote no message: no save_message call of it went through.
WroteNoMessage(r) ==
    /\ saved[r] = <<>>
    /\ "save_message:user" \notin Range(calls[r])
    /\ "save_message:assistant" \notin Range(calls[r])

\* C28 (as claimed): a process_query that fails at history load, embedding,
\* vector search or generation writes neither message of its turn; and no
\* failed process_query leaves behind a session it created that has no
\* messages and whose ID was never returned to the caller.
C28_FailedQueryLeavesNothing ==
    \A r \in Requests :
        /\ FailedBeforeSaving(r) => WroteNoMessage(r)
        /\ (outcome[r].kind = "raised" /\ "create_session" \in Range(calls[r])
              /\ session_id[r] # None) =>
              ~( /\ SessionExists(session_id[r][1])
                 /\ SessionMessages(session_id[r][1]) = {}
                 /\ http[r].session_id = None )

-----------------------------------------------------------------------------
(* sanitize_query and the chat endpoint's use of it.  A message is a
   sequence of pieces: a word the patterns look for, a colon, a whitespace
   character, or other text; its length is the sum of their lengths. *)

MaxPieces == 3
max_length == 1000

Pieces == {"system", ":", " ", "a", "jailbreak", "a * 1000"}

PieceLen(p) ==
    CASE p = "system" -> 6
      [] p = "jailbreak" -> 9
      [] p = "a * 1000" -> max_length
      [] OTHER -> 1

RECURSIVE len(_)
len(query) == IF query = <<>> THEN 0 ELSE PieceLen(Head(query)) + len(Tail(query))

Messages == UNION { [1..n -> Pieces] : n \in 0..MaxPieces }

\* str.strip(): whitespace off both ends.
RECURSIVE lstrip(_)
lstrip(query) ==
    IF query # <<>> /\ Head(query) = " " THEN lstrip(Tail(query)) ELSE query

RECURSIVE rstrip(_)
rstrip(query) ==
    IF query # <<>> /\ query[Len(query)] = " "
    THEN rstrip(SubSeq(query, 1, Len(query) - 1))
    ELSE query

strip(query) == rstrip(lstrip(query))

\* Where a match of system\s*: that starts at the head of query ends, or 0.
MatchEnd(query) ==
    IF query = <<>> \/ Head(query) # "system" THEN 0
    ELSE LET rest == lstrip(Tail(query)) IN
         IF rest # <<>> /\ Head(rest) = ":"
         THEN Len(query) - Len(rest) + 1
         ELSE 0

\* re.sub(r"system\s*:", "", query): every match removed, left to right.
RECURSIVE RemovePatterns(_)
RemovePatterns(query) ==
    IF query = <<>> THEN <<>>
    ELSE IF MatchEnd(query) > 0
         THEN RemovePatterns(SubSeq(query, MatchEnd(query) + 1, Len(query)))
         ELSE <<Head(query)>> \o RemovePatterns(Tail(query))

\* re.sub(r"\s+", " ", query): each run of whitespace becomes one space.
RECURSIVE CollapseWhitespace(_)
CollapseWhitespace(query) ==
    IF query = <<>> THEN <<>>
    ELSE IF Head(query) = " "
         THEN <<" ">> \o CollapseWhitespace(lstrip(query))
         ELSE <<Head(query)>> \o CollapseWhitespace(Tail(query))

\* sanitize_query: the ValueError it raises ("" when it returns).
SanitizeError(query) ==
    IF strip(query) = <<>> THEN "Query cannot be empty"
    ELSE IF len(strip(query)) > max_length
         THEN "Query exceeds maximum length of 1000 characters"
    ELSE ""

\* sanitize_query: what it returns when it does not raise.
sanitize_query(query) == strip(CollapseWhitespace(RemovePatterns(strip(query))))

\* detect_prompt_injection: one of the indicators occurs in the text.
detect_prompt_injection(text) == \E i \in 1..Len(text) : text[i] = "jailbreak"

\* chat(), up to the call of process_query, for the message of a request.
chat_message(message) ==
    /\ ~sanitize.called
    /\ sanitize' =
          IF SanitizeError(message) # ""
          THEN Sanitized(message, SanitizeError(message), <<>>, 400, None)
          ELSE LET sanitized_query == sanitize_query(message) IN
               IF detect_prompt_injection(sanitized_query)
               THEN Sanitized(message, "", sanitized_query, 400, None)
               ELSE Sanitized(message, "", sanitized_query, 0, Some(sanitized_query))
    /\ UNCHANGED <<store, pipeline, api, index, embed_content, settings, llm_call, health,
                   history_http, embed_batch, chunker>>

NextSanitize == \E message \in Messages : chat_message(message)

SpecSanitize == Init /\ [][NextSanitize]_vars

\* C29 (as claimed): sanitize_query either raises ValueError or returns a
\* non-empty string of at most max_length characters, so every query text
\* that reaches process_query has a length of 1 to 1000 characters; this
\* holds also for messages made only of stripped patterns.
C29_SanitizedQueryNonEmpty ==
    sanitize.called =>
        /\ sanitize.error = "" =>
              len(sanitize.result) >= 1 /\ len(sanitize.result) <= max_length
        /\ sanitize.process_query # None =>
              /\ len(sanitize.process_query[1]) >= 1
              /\ len(sanitize.process_query[1]) <= max_length

-----------------------------------------------------------------------------
(* chunk_text.  A text is its list of words, text.split(); word i of the
   text is the number i. *)

MaxWords == 4
MaxChunkSize == 3
MaxOverlap == 5
MaxChunks == 5                   \* loop iterations followed per call

\* words[start:end] as Python slices a list of n words: a negative index
\* counts from the end, and both are clipped to the list.
PyIndex(n, i) == IF i < 0 THEN Max(n + i, 0) ELSE Min(i, n)
PySlice(words, start, end) ==
    SubSeq(words, PyIndex(Len(words), start) + 1, PyIndex(Len(words), end))

\* chunk_text up to the loop: the whole text as the only chunk when it has
\* no more than chunk_size words.
chunk_text(n, chunk_size, overlap) ==
    LET words == [i \in 1..n |-> i] IN
    /\ chunker.pc = "idle"
    /\ chunker' = IF Len(words) <= chunk_size
                  THEN Chunker("done", words, chunk_size, overlap, 0, <<words>>)
                  ELSE Chunker("while", words, chunk_size, overlap, 0, <<>>)
    /\ UNCHANGED <<store, pipeline, api, index, embed_content, settings, llm_call, health,
                   history_http, embed_batch, sanitize>>

\* One test of "while start < len(words)" and, when it holds, the loop body.
chunk_text_while ==
    /\ chunker.pc = "while"
    /\ Len(chunker.chunks) < MaxChunks
    /\ chunker' =
          IF chunker.start < Len(chunker.words)
          THEN [chunker EXCEPT
                  !.chunks = Append(@, PySlice(chunker.words, chunker.start,
                                               chunker.start + chunker.chunk_size)),
                  !.start = @ + (chunker.chunk_size - chunker.overlap)
                              + (IF chunker.overlap >= chunker.chunk_size THEN 1 ELSE 0)]
          ELSE [chunker EXCEPT !.pc = "done"]
    /\ UNCHANGED <<store, pipeline, api, index, embed_content, settings, llm_call, health,
                   history_http, embed_batch, sanitize>>

NextChunk ==
    \/ \E n \in 0..MaxWords, chunk_size \in 1..MaxChunkSize, overlap \in 0..MaxOverlap :
          chunk_text(n, chunk_size, overlap)
    \/ chunk_text_while

SpecChunk == Init /\ [][NextChunk]_vars

\* C30 (as claimed): chunk_text terminates for every text, every positive
\* chunk_size and every overlap >= 0, also when overlap >= chunk_size: the
\* start index advances in every iteration, so the loop adds at most one
\* chunk per word; and when it has returned, every word of the text is in
\* some chunk and the chunks come in text order.
C30_ChunkTextTerminates ==
    /\ Len(chunker.chunks) <= Max(Len(chunker.words), 1)
    /\ chunker.pc = "done" =>
          /\ \A w \in Range(chunker.words) :
                \E i \in 1..Len(chunker.chunks) : w \in Range(chunker.chunks[i])
          /\ \A i \in 1..Len(chunker.chunks) :
                \A j \in 1..(Len(chunker.chunks[i]) - 1) :
                    chunker.chunks[i][j + 1] = chunker.chunks[i][j] + 1
          /\ \A i \in 1..(Len(chunker.chunks) - 1) :
                /\ chunker.chunks[i] # <<>> /\ chunker.chunks[i + 1] # <<>>
                /\ chunker.chunks[i][1] < chunker.chunks[i + 1][1]

====
